---- MODULE Spec2Model ----
(***************************************************************************)
(* License verification and guild activation of the Discord bot license    *)
(* API: the express handlers of routes.ts (POST /api/verify-license,       *)
(* POST /api/licenses/:licenseKey/deactivate, PUT /api/licenses/:key) and  *)
(* the MongoStorage operations they await.  Every await of a handler is a  *)
(* point where other requests interleave, so a handler is a sequence of    *)
(* steps: one step per store operation, with the synchronous code that     *)
(* follows it; a synchronous block that reads the clock (new Date()) is a  *)
(* step of its own.                                                        *)
(***************************************************************************)
EXTENDS Integers, Sequences, FiniteSets, TLC

\* ------------------------------------------------------------------ bounds
MaxTime == 2        \* the clock runs over 0..MaxTime
MaxGuildsCap == 2   \* activation.maxGuilds of an initial license is in 1..MaxGuildsCap
MaxBurst == 3       \* the verifications of a burst (one guild each)
MaxSeq == 4         \* the requests of a sequential run

\* --------------------------------------------------------------- universes
Keys == {"K1", "K2"}
GuildIds == <<"A", "B", "C", "D">>
Guilds == {"A", "B", "C"}
\* two requests in flight together: every race of one verification or
\* deactivation with another
Slots == {1, 2}

\* null, for a license (findOne found nothing) and for validity.expiresAt
Null == [null |-> TRUE]
NullDate == -1
\* the deviceId of a request body that carries none
NoDeviceId == "(undefined)"

VARIABLES
    licenses,          \* the "licenses" collection: licenseKey -> document or Null
    verificationLogs,  \* the "verification_logs" collection, in insertion order
    now,               \* the clock read by new Date()
    reqs               \* the requests: each handler's locals, position and response

vars == <<licenses, verificationLogs, now, reqs>>

\* ------------------------------------------- limiter and apiKeyMiddleware
\* A header value is a string, written as the sequence of its pieces: the
\* text "Bearer " is one piece, a key is another; <<>> is the empty string.
\* The headers of a request are a record of those it carries (xApiKey for
\* X-API-Key, authorization for Authorization).
\* process.env.API_KEY
ApiKey == <<"k">>

\* str.replace("Bearer ", ""): the first occurrence of the text is taken out,
\* wherever it stands
ReplaceBearer(str) ==
    IF \E i \in 1 .. Len(str) : str[i] = "Bearer "
    THEN LET first == CHOOSE i \in 1 .. Len(str) :
                         /\ str[i] = "Bearer "
                         /\ \A j \in 1 .. i - 1 : str[j] # "Bearer "
         IN SubSeq(str, 1, first - 1) \o SubSeq(str, first + 1, Len(str))
    ELSE str

\* req.headers["x-api-key"] || req.headers["authorization"]?.replace("Bearer ", "");
\* undefined is written <<>>: it is falsy as the empty string is
ApiKeyOf(headers) ==
    IF "xApiKey" \in DOMAIN headers /\ headers.xApiKey # <<>>
    THEN headers.xApiKey
    ELSE IF "authorization" \in DOMAIN headers
    THEN ReplaceBearer(headers.authorization)
    ELSE <<>>

\* apiKeyMiddleware without the comparison with API_KEY
apiKeyMiddlewareNoCompare(headers) ==
    IF ApiKeyOf(headers) = <<>> THEN 401 ELSE 0

\* apiKeyMiddleware: the status it rejects the request with, 0 when it calls
\* next()
apiKeyMiddleware(headers) ==
    IF ApiKeyOf(headers) = <<>> THEN 401
    ELSE IF ApiKeyOf(headers) # ApiKey THEN 403
    ELSE 0

\* the status the route's middleware chain (limiter, apiKeyMiddleware) rejects
\* a request with, 0 when the handler is reached; rateLimited says that the
\* limiter has counted more than its 100 requests of the window for the origin
RouteGate(rateLimited, headers) ==
    IF rateLimited THEN 429 ELSE apiKeyMiddleware(headers)

\* ------------------------------------------------------------ pure helpers
Includes(seq, x) == \E i \in 1 .. Len(seq) : seq[i] = x

NoDuplicates(seq) == \A i, j \in 1 .. Len(seq) : i # j => seq[i] # seq[j]

Min(a, b) == IF a < b THEN a ELSE b

MkLicense(k, st, lt, ex, mg, ag) ==
    [licenseKey |-> k,
     product |-> [name |-> "bot", id |-> "p1"],
     owner |-> [discordId |-> "u1", username |-> "user"],
     status |-> st,
     validity |-> [lifetime |-> lt, expiresAt |-> ex],
     activation |-> [maxGuilds |-> mg, activatedGuilds |-> 0, allowedGuilds |-> ag],
     metadata |-> [notes |-> "", reseller |-> ""],
     security |-> [readOnly |-> TRUE, checksum |-> "sum"],
     lastChecked |-> 0]

\* A response: its HTTP status, whether its body carries a "valid" key and
\* that key's value (false where there is none), its message or error text,
\* and the rest of its body.
\* the response object before res.json / res.status(..).json is called
NoResponse == [status |-> 0, hasValid |-> FALSE, valid |-> FALSE, message |-> "", data |-> Null]

IdleReq ==
    [kind |-> "none", pc |-> "idle",
     headers |-> Null, rateLimited |-> FALSE,
     licenseKey |-> "", discordServerId |-> "", deviceId |-> NoDeviceId,
     license |-> Null, logEntry |-> Null, isGuildActive |-> FALSE,
     updatedLicense |-> Null, updatePayload |-> NullDate,
     body |-> Null, updates |-> Null, newLicense |-> Null,
     error |-> "",
     res |-> NoResponse]

\* ------------------------------------------------------- MongoStorage (store)
\* findOne({ licenseKey })
getLicenseByKey(store, licenseKey) == store[licenseKey]

\* $addToSet: append the value unless the array holds it already
AddToSet(seq, x) == IF Includes(seq, x) THEN seq ELSE Append(seq, x)

\* $pull: remove every element equal to the value
Pull(seq, x) == SelectSeq(seq, LAMBDA y : y # x)

\* addActiveGuildFilter without the $in branch: the size test alone
addActiveGuildFilterSizeOnly(doc, guildId) ==
    Len(doc.activation.allowedGuilds) < doc.activation.maxGuilds

\* addActiveGuildFilter with $lte in place of $lt
addActiveGuildFilterLte(doc, guildId) ==
    \/ Includes(doc.activation.allowedGuilds, guildId)
    \/ Len(doc.activation.allowedGuilds) <= doc.activation.maxGuilds

\* the $expr of addActiveGuild's filter: the guild is in allowedGuilds already,
\* or allowedGuilds is shorter than maxGuilds
addActiveGuildFilter(doc, guildId) ==
    \/ Includes(doc.activation.allowedGuilds, guildId)
    \/ Len(doc.activation.allowedGuilds) < doc.activation.maxGuilds

\* whether findOneAndUpdate of addActiveGuild matches a document
addActiveGuildMatches(store, licenseKey, guildId) ==
    /\ store[licenseKey] # Null
    /\ addActiveGuildFilter(store[licenseKey], guildId)

\* addActiveGuildStore without the $expr in its filter: the guild is added to
\* the document of that key whatever its size
addActiveGuildStoreNoExpr(store, licenseKey, guildId) ==
    IF store[licenseKey] # Null
    THEN [store EXCEPT ![licenseKey].activation.allowedGuilds = AddToSet(@, guildId)]
    ELSE store

\* the collection after addActiveGuild: one atomic findOneAndUpdate
addActiveGuildStore(store, licenseKey, guildId) ==
    IF addActiveGuildMatches(store, licenseKey, guildId)
    THEN [store EXCEPT
            ![licenseKey].activation.allowedGuilds = AddToSet(@, guildId),
            ![licenseKey].activation.activatedGuilds = @ + 0]
    ELSE store

\* what addActiveGuild returns: the document after the update, or null
addActiveGuild(store, licenseKey, guildId) ==
    IF addActiveGuildMatches(store, licenseKey, guildId)
    THEN addActiveGuildStore(store, licenseKey, guildId)[licenseKey]
    ELSE Null

\* removeActiveGuildStore with allowedGuilds emptied instead of pulled from
removeActiveGuildStoreClear(store, licenseKey, guildId) ==
    IF store[licenseKey] # Null
    THEN [store EXCEPT ![licenseKey].activation.allowedGuilds = <<>>]
    ELSE store

\* removeActiveGuildStore with a $pull that matches nothing
removeActiveGuildStoreNoPull(store, licenseKey, guildId) == store

\* the collection after removeActiveGuild: one atomic findOneAndUpdate with $pull
removeActiveGuildStore(store, licenseKey, guildId) ==
    IF store[licenseKey] # Null
    THEN [store EXCEPT ![licenseKey].activation.allowedGuilds = Pull(@, guildId)]
    ELSE store

\* what removeActiveGuild returns: the document after the update, or null
removeActiveGuild(store, licenseKey, guildId) ==
    removeActiveGuildStore(store, licenseKey, guildId)[licenseKey]

\* createLicenseStore with an insertOne that no unique index stops: the new
\* document takes the place of the one of its key
createLicenseStoreOverwrite(store, newLicense) ==
    [store EXCEPT ![newLicense.licenseKey] = newLicense]

\* the unique index on licenseKey refuses the insert (error code 11000)
DuplicateKey(store, newLicense) == store[newLicense.licenseKey] # Null

\* the collection after createLicense: insertOne under the unique index on
\* licenseKey, which keeps the collection one document per key
createLicenseStore(store, newLicense) ==
    IF DuplicateKey(store, newLicense)
    THEN store
    ELSE [store EXCEPT ![newLicense.licenseKey] = newLicense]

\* the collection after deleteLicense: deleteOne({ licenseKey })
deleteLicenseStore(store, licenseKey) == [store EXCEPT ![licenseKey] = Null]

\* what deleteLicense returns: result.deletedCount > 0
deleteLicense(store, licenseKey) == store[licenseKey] # Null

\* getAllLicenses: find({}).toArray(), as the set of the documents
getAllLicenses(store) == {store[k] : k \in {key \in DOMAIN store : store[key] # Null}}

\* $set: the fields the update document names take its values, every other
\* field keeps its own.  An update document is a function from dotted paths
\* ("status", "activation.maxGuilds", ...) to values.
SetFields(doc, updateDoc) ==
    LET val(path, old) == IF path \in DOMAIN updateDoc THEN updateDoc[path] ELSE old
    IN [doc EXCEPT
          !.status = val("status", @),
          !.lastChecked = val("lastChecked", @),
          !.validity.lifetime = val("validity.lifetime", @),
          !.validity.expiresAt = val("validity.expiresAt", @),
          !.activation.maxGuilds = val("activation.maxGuilds", @),
          !.activation.activatedGuilds = val("activation.activatedGuilds", @),
          !.activation.allowedGuilds = val("activation.allowedGuilds", @),
          !.product.name = val("product.name", @),
          !.product.id = val("product.id", @),
          !.owner.discordId = val("owner.discordId", @),
          !.owner.username = val("owner.username", @),
          !.metadata.notes = val("metadata.notes", @),
          !.metadata.reseller = val("metadata.reseller", @),
          !.security.readOnly = val("security.readOnly", @),
          !.security.checksum = val("security.checksum", @)]

\* updateLicense with a filter that matches every document (no licenseKey)
updateLicenseAll(store, licenseKey, updateDoc) ==
    IF DOMAIN updateDoc = {} \/ store[licenseKey] = Null
    THEN store
    ELSE [k \in DOMAIN store |->
            IF store[k] = Null THEN Null ELSE SetFields(store[k], updateDoc)]

\* the collection after updateLicense: nothing to set, or no document of that
\* key, changes nothing; otherwise one findOneAndUpdate with $set
updateLicense(store, licenseKey, updateDoc) ==
    IF DOMAIN updateDoc = {} \/ store[licenseKey] = Null
    THEN store
    ELSE [store EXCEPT ![licenseKey] = SetFields(@, updateDoc)]

\* what updateLicense returns: the document after the update (or, with nothing
\* to set, the document as getLicenseByKey finds it), null when there is none
updateLicenseResult(store, licenseKey, updateDoc) ==
    updateLicense(store, licenseKey, updateDoc)[licenseKey]

\* logVerification with the entry dropped
logVerificationDropped(logs, entry) == logs

\* logVerification with the collection replaced by the new entry
logVerificationReplace(logs, entry) == <<entry>>

\* logVerification: insertOne into verification_logs
logVerification(logs, entry) == Append(logs, entry)

\* getVerificationLogs: find(query).sort({ timestamp: -1 }).limit(limit).
\* the entries that the query matches, in insertion order
FindLogs(logs, licenseKey) ==
    SelectSeq(logs, LAMBDA entry : licenseKey = "" \/ entry.licenseKey = licenseKey)

\* the orders that sort({ timestamp: -1 }) can return the entries in: every
\* arrangement with the timestamps descending (the order of entries with
\* equal timestamps is the store's choice)
SortedByTimestampDesc(found) ==
    LET n == Len(found)
        perms == {f \in [1 .. n -> 1 .. n] : \A i, j \in 1 .. n : i # j => f[i] # f[j]}
    IN {[i \in 1 .. n |-> found[f[i]]] : f \in
           {g \in perms : \A i, j \in 1 .. n :
                             i < j => found[g[i]].timestamp >= found[g[j]].timestamp}}

\* cursor.limit(n): the first n documents; a limit of 0 is no limit, and a
\* negative limit is that of its absolute value
CursorLimit(sorted, limit) ==
    LET n == IF limit < 0 THEN 0 - limit ELSE limit
    IN IF n = 0 \/ n >= Len(sorted) THEN sorted ELSE SubSeq(sorted, 1, n)

\* the results getVerificationLogs can return; licenseKey "" is a query
\* without a licenseKey
getVerificationLogs(logs, licenseKey, limit) ==
    {CursorLimit(sorted, limit) : sorted \in SortedByTimestampDesc(FindLogs(logs, licenseKey))}

\* ------------------------------------------- POST /api/verify-license (pure)
\* IsExpired with the comparison turned around: expiryDate > new Date()
IsExpiredReversed(validity, t) ==
    /\ ~validity.lifetime
    /\ validity.expiresAt # NullDate
    /\ validity.expiresAt > t

\* IsExpired with <= in place of <
IsExpiredLte(validity, t) ==
    /\ ~validity.lifetime
    /\ validity.expiresAt # NullDate
    /\ validity.expiresAt <= t

\* IsExpired without the test of validity.lifetime
IsExpiredIgnoringLifetime(validity, t) ==
    /\ validity.expiresAt # NullDate
    /\ validity.expiresAt < t

\* the expiry test of the handler: a fixed expiry that lies before the clock
IsExpired(validity, t) ==
    /\ ~validity.lifetime
    /\ validity.expiresAt # NullDate
    /\ validity.expiresAt < t

\* FailedCheck without the status test
FailedCheckNoStatus(license, t) ==
    IF license = Null THEN "License not found"
    ELSE IF IsExpired(license.validity, t) THEN "License has expired"
    ELSE ""

\* FailedCheck with the expiry test ahead of the status test
FailedCheckExpiryFirst(license, t) ==
    IF license = Null THEN "License not found"
    ELSE IF IsExpired(license.validity, t) THEN "License has expired"
    ELSE IF license.status # "active" THEN "License is inactive"
    ELSE ""

\* the ordered checks on the loaded license, before the membership mutation:
\* the reason of the first failing check, "" when all pass
FailedCheck(license, t) ==
    IF license = Null THEN "License not found"
    ELSE IF license.status # "active" THEN "License is inactive"
    ELSE IF IsExpired(license.validity, t) THEN "License has expired"
    ELSE ""

\* the fields of the license the valid response carries
Sanitized(license) ==
    [licenseKey |-> license.licenseKey,
     product |-> license.product,
     owner |-> license.owner,
     status |-> license.status,
     validity |-> license.validity,
     activation |-> license.activation]

\* the response of each failing branch
FailureResponse(reason, license) ==
    CASE reason = "License not found" ->
           [status |-> 200, hasValid |-> TRUE, valid |-> FALSE, message |-> "License not found", data |-> Null]
      [] reason = "License is inactive" ->
           [status |-> 200, hasValid |-> TRUE, valid |-> FALSE, message |-> "License is inactive", data |-> Null]
      [] reason = "License has expired" ->
           [status |-> 200, hasValid |-> TRUE, valid |-> FALSE, message |-> "License has expired",
            data |-> [expiresAt |-> license.validity.expiresAt]]
      [] reason = "Maximum guilds reached" ->
           [status |-> 200, hasValid |-> TRUE, valid |-> FALSE,
            message |-> "Maximum number of guilds reached for this license",
            data |-> [maxGuilds |-> license.activation.maxGuilds,
                      activeGuilds |-> Len(license.activation.allowedGuilds)]]

ValidResponse(isGuildActive, finalLicense) ==
    [status |-> 200, hasValid |-> TRUE, valid |-> TRUE,
     message |-> IF isGuildActive THEN "License is valid (guild already active)"
                 ELSE "License is valid (guild activated)",
     data |-> Sanitized(finalLicense)]

ErrorResponse ==
    [status |-> 500, hasValid |-> TRUE, valid |-> FALSE, message |-> "Internal server error", data |-> Null]

\* the 400 of a body that the schema of an update or a creation rejects
InvalidBodyResponse ==
    [status |-> 400, hasValid |-> FALSE, valid |-> FALSE,
     message |-> "Invalid request format", data |-> Null]

\* the 400 of a verification body the schema rejects
InvalidFormatResponse ==
    [status |-> 400, hasValid |-> TRUE, valid |-> FALSE, message |-> "Invalid request format", data |-> Null]

\* --------------------------------------- POST /api/verify-license (handler)
\* A verification body is a record of the keys it carries (licenseKey,
\* discordServerId, deviceId), each a string.
\* verifyLicenseRequestSchemaAccepts without the min(1) of its two strings
verifyLicenseRequestSchemaNoMin(body) ==
    /\ "licenseKey" \in DOMAIN body
    /\ "discordServerId" \in DOMAIN body

\* verifyLicenseRequestSchema.safeParse(body).success: licenseKey and
\* discordServerId are strings of at least one character, deviceId is optional
verifyLicenseRequestSchemaAccepts(body) ==
    /\ "licenseKey" \in DOMAIN body /\ body["licenseKey"] # ""
    /\ "discordServerId" \in DOMAIN body /\ body["discordServerId"] # ""

\* validation.data
verifyLicenseRequestSchemaData(body) ==
    [licenseKey |-> body["licenseKey"],
     discordServerId |-> body["discordServerId"],
     deviceId |-> IF "deviceId" \in DOMAIN body THEN body["deviceId"] ELSE NoDeviceId]

\* validation.data is destructured and the handler's first store operation
\* runs: getLicenseByKey
VerifyLoad(p, data) ==
    /\ reqs[p].pc = "idle"
    /\ reqs' = [reqs EXCEPT ![p] =
                  [@ EXCEPT !.kind = "verify", !.pc = "check",
                            !.licenseKey = data.licenseKey,
                            !.discordServerId = data.discordServerId,
                            !.deviceId = data.deviceId,
                            !.license = getLicenseByKey(licenses, data.licenseKey)]]
    /\ UNCHANGED <<licenses, verificationLogs, now>>

\* a request arrives with a body that passes verifyLicenseRequestSchema and
\* carries no deviceId
VerifyBegin(p, licenseKey, discordServerId) ==
    VerifyLoad(p, [licenseKey |-> licenseKey, discordServerId |-> discordServerId,
                   deviceId |-> NoDeviceId])

\* the synchronous block after the load: the log entry is built with the clock's
\* value, the checks run in order on the loaded license, and either a failing
\* branch is taken (its reason is set, logVerification is awaited) or
\* isGuildActive is computed and addActiveGuild is awaited
VerifyCheck(p) ==
    /\ reqs[p].kind = "verify" /\ reqs[p].pc = "check"
    /\ LET r == reqs[p]
           reason == FailedCheck(r.license, now)
           entry == [licenseKey |-> r.licenseKey,
                     discordServerId |-> r.discordServerId,
                     deviceId |-> r.deviceId,
                     success |-> FALSE, reason |-> reason, timestamp |-> now]
       IN reqs' = [reqs EXCEPT ![p] =
                     IF reason # ""
                     THEN [r EXCEPT !.logEntry = entry, !.pc = "log"]
                     ELSE [r EXCEPT !.logEntry = entry, !.pc = "add",
                                    !.isGuildActive =
                                        Includes(r.license.activation.allowedGuilds,
                                                 r.discordServerId)]]
    /\ UNCHANGED <<licenses, verificationLogs, now>>

\* addActiveGuild runs in the store; a null result takes the maximum-guilds branch
VerifyAdd(p) ==
    /\ reqs[p].kind = "verify" /\ reqs[p].pc = "add"
    /\ LET r == reqs[p]
           updatedLicense == addActiveGuild(licenses, r.licenseKey, r.discordServerId)
       IN /\ licenses' = addActiveGuildStore(licenses, r.licenseKey, r.discordServerId)
          /\ reqs' = [reqs EXCEPT ![p] =
                        IF updatedLicense = Null
                        THEN [r EXCEPT !.updatedLicense = Null,
                                       !.logEntry.reason = "Maximum guilds reached",
                                       !.pc = "log"]
                        ELSE [r EXCEPT !.updatedLicense = updatedLicense,
                                       !.pc = "stamp"]]
    /\ UNCHANGED <<verificationLogs, now>>

\* the synchronous block after a successful add: the update payload
\* { lastChecked: new Date() } is built and updateLicense is awaited
VerifyStamp(p) ==
    /\ reqs[p].kind = "verify" /\ reqs[p].pc = "stamp"
    /\ reqs' = [reqs EXCEPT ![p] = [@ EXCEPT !.updatePayload = now, !.pc = "touch"]]
    /\ UNCHANGED <<licenses, verificationLogs, now>>

\* VerifyTouch with the license that addActiveGuild returned written back as
\* a whole, with the new lastChecked
VerifyTouchSavesSnapshot(p) ==
    /\ reqs[p].kind = "verify" /\ reqs[p].pc = "touch"
    /\ licenses' = IF licenses[reqs[p].licenseKey] = Null THEN licenses
                   ELSE [licenses EXCEPT ![reqs[p].licenseKey] =
                           [reqs[p].updatedLicense EXCEPT
                               !.lastChecked = reqs[p].updatePayload]]
    /\ reqs' = [reqs EXCEPT ![p] =
                  [@ EXCEPT !.logEntry.success = TRUE,
                            !.logEntry.reason = "Valid license",
                            !.pc = "logValid"]]
    /\ UNCHANGED <<verificationLogs, now>>

\* updateLicense(licenseKey, { lastChecked }) runs in the store; then the log
\* entry is marked a success and logVerification is awaited
VerifyTouch(p) ==
    /\ reqs[p].kind = "verify" /\ reqs[p].pc = "touch"
    /\ licenses' = updateLicense(licenses, reqs[p].licenseKey,
                                 "lastChecked" :> reqs[p].updatePayload)
    /\ reqs' = [reqs EXCEPT ![p] =
                  [@ EXCEPT !.logEntry.success = TRUE,
                            !.logEntry.reason = "Valid license",
                            !.pc = "logValid"]]
    /\ UNCHANGED <<verificationLogs, now>>

\* logVerification of a failing branch runs in the store, and the branch's
\* response is sent
VerifyLog(p) ==
    /\ reqs[p].kind = "verify" /\ reqs[p].pc = "log"
    /\ verificationLogs' = logVerification(verificationLogs, reqs[p].logEntry)
    /\ reqs' = [reqs EXCEPT ![p] =
                  [@ EXCEPT !.res = FailureResponse(reqs[p].logEntry.reason,
                                                    reqs[p].license),
                            !.pc = "done"]]
    /\ UNCHANGED <<licenses, now>>

\* logVerification of the valid branch runs in the store; the final
\* getLicenseByKey is awaited
VerifyLogValid(p) ==
    /\ reqs[p].kind = "verify" /\ reqs[p].pc = "logValid"
    /\ verificationLogs' = logVerification(verificationLogs, reqs[p].logEntry)
    /\ reqs' = [reqs EXCEPT ![p] = [@ EXCEPT !.pc = "reread"]]
    /\ UNCHANGED <<licenses, now>>

\* VerifyReread behind a lock of the engine: the final read runs once no
\* other request is on its way
VerifyRereadWaits(p) ==
    /\ reqs[p].kind = "verify" /\ reqs[p].pc = "reread"
    /\ \A q \in DOMAIN reqs \ {p} : reqs[q].pc \in {"idle", "done"}
    /\ LET finalLicense == getLicenseByKey(licenses, reqs[p].licenseKey)
       IN reqs' = [reqs EXCEPT ![p] =
                     [@ EXCEPT !.res = IF finalLicense = Null THEN ErrorResponse
                                       ELSE ValidResponse(reqs[p].isGuildActive,
                                                          finalLicense),
                               !.error = IF finalLicense = Null THEN "TypeError" ELSE "",
                               !.pc = "done"]]
    /\ UNCHANGED <<licenses, verificationLogs, now>>

\* the final getLicenseByKey runs and the valid response is sent; reading a
\* field of a null finalLicense throws, which the catch turns into a 500
VerifyReread(p) ==
    /\ reqs[p].kind = "verify" /\ reqs[p].pc = "reread"
    /\ LET finalLicense == getLicenseByKey(licenses, reqs[p].licenseKey)
       IN reqs' = [reqs EXCEPT ![p] =
                     [@ EXCEPT !.res = IF finalLicense = Null THEN ErrorResponse
                                       ELSE ValidResponse(reqs[p].isGuildActive,
                                                          finalLicense),
                               !.error = IF finalLicense = Null THEN "TypeError" ELSE "",
                               !.pc = "done"]]
    /\ UNCHANGED <<licenses, verificationLogs, now>>

\* a verification request arrives: a body the schema rejects is answered 400
\* at once, any other goes on to the load
VerifyRequest(p, body) ==
    IF verifyLicenseRequestSchemaAccepts(body)
    THEN VerifyLoad(p, verifyLicenseRequestSchemaData(body))
    ELSE /\ reqs[p].pc = "idle"
         /\ reqs' = [reqs EXCEPT ![p] =
                       [@ EXCEPT !.kind = "verify", !.body = body,
                                 !.res = InvalidFormatResponse, !.pc = "done"]]
         /\ UNCHANGED <<licenses, verificationLogs, now>>

\* ------------------- POST /api/verify-license with a store that fails
\* the catch of the handler: the error is printed and answered 500
VerifyCatch(r, error) ==
    [r EXCEPT !.kind = "verify", !.error = error, !.res = ErrorResponse, !.pc = "done"]

\* getLicenseByKeyRethrows with a catch that returns null
getLicenseByKeySwallows == FALSE

\* whether getLicenseByKey passes an error of findOne (or of a store that is
\* not connected) on to its caller: its catch prints the error and throws it
getLicenseByKeyRethrows == TRUE

\* a request arrives and its getLicenseByKey throws
VerifyLoadThrows(p, licenseKey, discordServerId) ==
    /\ reqs[p].pc = "idle"
    /\ reqs' = [reqs EXCEPT ![p] =
                  IF getLicenseByKeyRethrows
                  THEN VerifyCatch([@ EXCEPT !.licenseKey = licenseKey,
                                            !.discordServerId = discordServerId],
                                   "Store unavailable")
                  ELSE [@ EXCEPT !.kind = "verify", !.pc = "check",
                                 !.licenseKey = licenseKey,
                                 !.discordServerId = discordServerId,
                                 !.error = "Store unavailable",
                                 !.license = Null]]
    /\ UNCHANGED <<licenses, verificationLogs, now>>

\* addActiveGuild throws; the store has applied the update or it has not
VerifyAddThrows(p) ==
    /\ reqs[p].kind = "verify" /\ reqs[p].pc = "add"
    /\ licenses' \in {licenses,
                      addActiveGuildStore(licenses, reqs[p].licenseKey,
                                          reqs[p].discordServerId)}
    /\ reqs' = [reqs EXCEPT ![p] = VerifyCatch(@, "Store unavailable")]
    /\ UNCHANGED <<verificationLogs, now>>

\* updateLicense throws; the store has applied the update or it has not
VerifyTouchThrows(p) ==
    /\ reqs[p].kind = "verify" /\ reqs[p].pc = "touch"
    /\ licenses' \in {licenses,
                      updateLicense(licenses, reqs[p].licenseKey,
                                    "lastChecked" :> reqs[p].updatePayload)}
    /\ reqs' = [reqs EXCEPT ![p] = VerifyCatch(@, "Store unavailable")]
    /\ UNCHANGED <<verificationLogs, now>>

\* the final getLicenseByKey throws
VerifyRereadThrows(p) ==
    /\ reqs[p].kind = "verify" /\ reqs[p].pc = "reread"
    /\ reqs' = [reqs EXCEPT ![p] = VerifyCatch(@, "Store unavailable")]
    /\ UNCHANGED <<licenses, verificationLogs, now>>

\* logVerificationRethrows with a catch that throws the error on
logVerificationRethrowsAlways == TRUE

\* whether logVerification passes an insertOne error on to the handler: its
\* catch prints the error and returns
logVerificationRethrows == FALSE

\* the insertOne of logVerification throws and nothing is appended: the
\* handler goes on as after an insert that succeeded
VerifyLogFails(p) ==
    /\ reqs[p].kind = "verify" /\ reqs[p].pc \in {"log", "logValid"}
    /\ reqs' = [reqs EXCEPT ![p] =
                  IF logVerificationRethrows
                  THEN VerifyCatch(@, "Store unavailable")
                  ELSE IF reqs[p].pc = "log"
                  THEN [@ EXCEPT !.res = FailureResponse(reqs[p].logEntry.reason,
                                                         reqs[p].license),
                                 !.pc = "done"]
                  ELSE [@ EXCEPT !.pc = "reread"]]
    /\ UNCHANGED <<licenses, verificationLogs, now>>

VerifyStep(p) ==
    \/ VerifyCheck(p)
    \/ VerifyAdd(p)
    \/ VerifyStamp(p)
    \/ VerifyTouch(p)
    \/ VerifyLog(p)
    \/ VerifyLogValid(p)
    \/ VerifyReread(p)

\* -------------------------- POST /api/licenses/:licenseKey/deactivate (handler)
DeactivateResponse(license, discordServerId) ==
    IF license = Null
    THEN [status |-> 404, hasValid |-> FALSE, valid |-> FALSE, message |-> "License not found", data |-> Null]
    ELSE [status |-> 400, hasValid |-> FALSE, valid |-> FALSE,
          message |-> "Guild is not active for this license",
          data |-> [allowedGuilds |-> license.activation.allowedGuilds]]

\* DeactivateProceeds without the membership test
DeactivateProceedsNoMemberTest(license, discordServerId) == license # Null

\* whether the handler goes on to removeActiveGuild after its load
DeactivateProceeds(license, discordServerId) ==
    /\ license # Null
    /\ Includes(license.activation.allowedGuilds, discordServerId)

\* a deactivation request arrives with a discordServerId, getLicenseByKey runs,
\* and the handler answers 404 or 400 or awaits removeActiveGuild
DeactivateBegin(p, licenseKey, discordServerId) ==
    /\ reqs[p].pc = "idle"
    /\ LET license == getLicenseByKey(licenses, licenseKey)
           r == [reqs[p] EXCEPT !.kind = "deactivate",
                                !.licenseKey = licenseKey,
                                !.discordServerId = discordServerId,
                                !.license = license]
       IN reqs' = [reqs EXCEPT ![p] =
                     IF DeactivateProceeds(license, discordServerId)
                     THEN [r EXCEPT !.pc = "remove"]
                     ELSE [r EXCEPT !.res = DeactivateResponse(license, discordServerId),
                                    !.pc = "done"]]
    /\ UNCHANGED <<licenses, verificationLogs, now>>

\* removeActiveGuild runs in the store and the success response is sent
DeactivateRemove(p) ==
    /\ reqs[p].kind = "deactivate" /\ reqs[p].pc = "remove"
    /\ LET r == reqs[p]
           updatedLicense == removeActiveGuild(licenses, r.licenseKey, r.discordServerId)
       IN /\ licenses' = removeActiveGuildStore(licenses, r.licenseKey, r.discordServerId)
          /\ reqs' = [reqs EXCEPT ![p] =
                        [r EXCEPT !.updatedLicense = updatedLicense,
                                  !.res = [status |-> 200, hasValid |-> FALSE, valid |-> FALSE,
                                           message |-> "Guild deactivated successfully",
                                           data |-> updatedLicense],
                                  !.pc = "done"]]
    /\ UNCHANGED <<verificationLogs, now>>

\* ------------------------------------ PUT /api/licenses/:licenseKey (handler)
\* A request body is a function from the top-level keys it carries to their
\* values; the value of product, owner, validity, activation, metadata or security is a
\* function from the sub-keys it carries to theirs.  A date string is the
\* clock value it denotes; EmptyString is the string "" in its place.
EmptyString == -2

NestedKeys == {"product", "owner", "validity", "activation", "metadata", "security"}

\* updateLicenseSchema.safeParse(body).success: status is one of the enum,
\* maxGuilds a positive and activatedGuilds a non-negative integer, and the
\* refinement asks for at least one key
updateLicenseSchemaAccepts(body) ==
    /\ DOMAIN body # {}
    /\ "status" \in DOMAIN body => body["status"] \in {"active", "inactive"}
    /\ "activation" \in DOMAIN body =>
          /\ "maxGuilds" \in DOMAIN body["activation"]
                => body["activation"]["maxGuilds"] > 0
          /\ "activatedGuilds" \in DOMAIN body["activation"]
                => body["activation"]["activatedGuilds"] >= 0

\* updateLicenseSchemaData with every sub-key that the body omits from its
\* validity or activation filled in: null and false, and the defaults 0 and []
updateLicenseSchemaDataCoerced(body) ==
    [k \in DOMAIN body |->
        IF k = "validity"
        THEN [sub \in {"lifetime", "expiresAt"} |->
                 IF sub \in DOMAIN body[k] THEN body[k][sub]
                 ELSE IF sub = "expiresAt" THEN NullDate ELSE FALSE]
        ELSE IF k = "activation"
        THEN [sub \in {"maxGuilds", "activatedGuilds", "allowedGuilds"} |->
                 IF sub \in DOMAIN body[k] THEN body[k][sub]
                 ELSE IF sub = "allowedGuilds" THEN <<>> ELSE 0]
        ELSE body[k]]

\* validation.data: the keys of the body with the schema's transforms applied.
\* Under .partial() a sub-key the body omits stays undefined (no default is
\* filled in, no transform runs); validity.expiresAt maps a falsy string to
\* null; lastChecked maps a falsy string to undefined, which updateLicense
\* skips, so that the key is dropped here.
updateLicenseSchemaData(body) ==
    LET dropped == IF "lastChecked" \in DOMAIN body /\ body["lastChecked"] = EmptyString
                   THEN {"lastChecked"} ELSE {}
    IN [k \in DOMAIN body \ dropped |->
          IF k = "validity"
          THEN [sub \in DOMAIN body[k] |->
                   IF sub = "expiresAt" /\ body[k][sub] = EmptyString
                   THEN NullDate ELSE body[k][sub]]
          ELSE body[k]]

\* the $set document updateLicense builds: one dotted path per sub-key of each
\* nested object of the updates, and status and lastChecked themselves
UpdateDoc(updates) ==
    LET tops == DOMAIN updates \cap NestedKeys
        pairs == UNION {{<<top, sub>> : sub \in DOMAIN updates[top]} : top \in tops}
        path(pair) == pair[1] \o "." \o pair[2]
        scalars == DOMAIN updates \cap {"status", "lastChecked"}
    IN [pt \in {path(pair) : pair \in pairs} \cup scalars |->
          IF pt \in scalars THEN updates[pt]
          ELSE LET pair == CHOOSE pr \in pairs : path(pr) = pt
               IN updates[pair[1]][pair[2]]]

PutResponse(license) ==
    IF license = Null
    THEN [status |-> 404, hasValid |-> FALSE, valid |-> FALSE, message |-> "License not found", data |-> Null]
    ELSE [status |-> 200, hasValid |-> FALSE, valid |-> FALSE, message |-> "License updated successfully",
          data |-> license]

\* an update request arrives: its body is validated, and a body the schema
\* accepts becomes the updates that updateLicense is awaited with
PutBegin(p, licenseKey, body) ==
    /\ reqs[p].pc = "idle"
    /\ LET r == [reqs[p] EXCEPT !.kind = "put", !.licenseKey = licenseKey,
                                !.body = body]
       IN reqs' = [reqs EXCEPT ![p] =
                     IF updateLicenseSchemaAccepts(body)
                     THEN [r EXCEPT !.updates = updateLicenseSchemaData(body),
                                    !.pc = "update"]
                     ELSE [r EXCEPT !.res = InvalidBodyResponse, !.pc = "done"]]
    /\ UNCHANGED <<licenses, verificationLogs, now>>

\* updateLicense runs in the store and its result is answered
PutUpdate(p) ==
    /\ reqs[p].kind = "put" /\ reqs[p].pc = "update"
    /\ LET r == reqs[p]
           updateDoc == UpdateDoc(r.updates)
           license == updateLicenseResult(licenses, r.licenseKey, updateDoc)
       IN /\ licenses' = updateLicense(licenses, r.licenseKey, updateDoc)
          /\ reqs' = [reqs EXCEPT ![p] =
                        [r EXCEPT !.updatedLicense = license,
                                  !.res = PutResponse(license),
                                  !.pc = "done"]]
    /\ UNCHANGED <<verificationLogs, now>>

\* ------------------------------------------- POST /api/licenses (handler)
\* A creation body is a record of the keys it carries: licenseKey, validity,
\* activation (maxGuilds and, if given, allowedGuilds) and, if given, status.
\* createLicenseSchema.safeParse(body).success: the licenseKey has at least
\* one character and maxGuilds is a positive integer
createLicenseSchemaAccepts(body) ==
    /\ body.licenseKey # ""
    /\ body.activation.maxGuilds > 0

\* validation.data with the schema's defaults (status "active",
\* activatedGuilds 0, allowedGuilds []), and the metadata that createLicense
\* fills in
createLicenseSchemaData(body) ==
    MkLicense(body.licenseKey,
              IF "status" \in DOMAIN body THEN body.status ELSE "active",
              body.validity.lifetime, body.validity.expiresAt,
              body.activation.maxGuilds,
              IF "allowedGuilds" \in DOMAIN body.activation
              THEN body.activation.allowedGuilds ELSE <<>>)

CreateResponse(duplicate, license) ==
    IF duplicate
    THEN [status |-> 409, hasValid |-> FALSE, valid |-> FALSE, message |-> "License key already exists",
          data |-> Null]
    ELSE [status |-> 201, hasValid |-> FALSE, valid |-> FALSE, message |-> "License created successfully",
          data |-> license]

\* a creation request arrives: its body is validated, and createLicense is
\* awaited with the data of a body the schema accepts
CreateBegin(p, body) ==
    /\ reqs[p].pc = "idle"
    /\ LET r == [reqs[p] EXCEPT !.kind = "create", !.licenseKey = body.licenseKey,
                                !.body = body]
       IN reqs' = [reqs EXCEPT ![p] =
                     IF createLicenseSchemaAccepts(body)
                     THEN [r EXCEPT !.newLicense = createLicenseSchemaData(body),
                                    !.pc = "insert"]
                     ELSE [r EXCEPT !.res = InvalidBodyResponse, !.pc = "done"]]
    /\ UNCHANGED <<licenses, verificationLogs, now>>

\* insertOne runs in the store: the license is inserted and answered 201, or
\* the duplicate-key error is thrown and answered 409
CreateInsert(p) ==
    /\ reqs[p].kind = "create" /\ reqs[p].pc = "insert"
    /\ licenses' = createLicenseStore(licenses, reqs[p].newLicense)
    /\ reqs' = [reqs EXCEPT ![p] =
                  [@ EXCEPT !.res = CreateResponse(
                                       DuplicateKey(licenses, reqs[p].newLicense),
                                       reqs[p].newLicense),
                            !.pc = "done"]]
    /\ UNCHANGED <<verificationLogs, now>>

\* ------------------------------------------ GET /api/analytics/logs (handler)
\* The query of a request is a record of the parameters it carries
\* (licenseKey, limit), each a string.
\* the limit of a request that gives none
DefaultLimit == 100

\* parseInt of the decimal strings that the requests carry
ParseInt(str) ==
    CASE str = "0" -> 0
      [] str = "1" -> 1
      [] str = "2" -> 2

\* limit ? parseInt(limit) : 100, where the empty string is falsy
LimitOf(query) ==
    IF "limit" \in DOMAIN query /\ query.limit # ""
    THEN ParseInt(query.limit) ELSE DefaultLimit

\* licenseKey as string | undefined; getVerificationLogs takes a falsy one for
\* none
LicenseKeyOf(query) == IF "licenseKey" \in DOMAIN query THEN query.licenseKey ELSE ""

\* a log query arrives, getVerificationLogs runs in the store and its result is
\* answered with its length
LogsQuery(p, query) ==
    /\ reqs[p].pc = "idle"
    /\ \E logs \in getVerificationLogs(verificationLogs, LicenseKeyOf(query),
                                        LimitOf(query)) :
          reqs' = [reqs EXCEPT ![p] =
                     [@ EXCEPT !.kind = "logs", !.body = query,
                               !.res = [status |-> 200, hasValid |-> FALSE,
                                        valid |-> FALSE, message |-> "",
                                        data |-> [logs |-> logs, count |-> Len(logs)]],
                               !.pc = "done"]]
    /\ UNCHANGED <<licenses, verificationLogs, now>>

\* --------------------------------------------- the routes behind the gate
\* the routes registered with limiter and apiKeyMiddleware
Endpoints ==
    {"verify", "create", "list", "get", "put", "deactivate", "delete", "logs"}

GateResponse(status) ==
    [status |-> status, hasValid |-> TRUE, valid |-> FALSE,
     message |-> CASE status = 429 -> "Too many requests, please try again later"
                   [] status = 401 ->
                        "Missing API key. Provide via X-API-Key header or Authorization Bearer token"
                   [] status = 403 -> "Invalid API key",
     data |-> Null]

\* a request to one of the routes arrives and goes through limiter and
\* apiKeyMiddleware: it is answered by one of them, or next() hands it to the
\* route's handler
Arrive(p, endpoint, rateLimited, headers) ==
    /\ reqs[p].pc = "idle" /\ reqs[p].kind = "none"
    /\ LET r == [reqs[p] EXCEPT !.kind = endpoint, !.headers = headers,
                                !.rateLimited = rateLimited]
           status == RouteGate(rateLimited, headers)
       IN reqs' = [reqs EXCEPT ![p] =
                     IF status = 0 THEN r
                     ELSE [r EXCEPT !.res = GateResponse(status), !.pc = "done"]]
    /\ UNCHANGED <<licenses, verificationLogs, now>>

\* the request p has reached the handler of its route
Admitted(p, endpoint) ==
    /\ reqs[p].pc = "idle" /\ reqs[p].kind = endpoint
    /\ reqs[p].headers # Null

\* GET /api/health: no middleware
Health(p) ==
    /\ reqs[p].pc = "idle" /\ reqs[p].kind = "none"
    /\ reqs' = [reqs EXCEPT ![p] =
                  [@ EXCEPT !.kind = "health",
                            !.res = [status |-> 200, hasValid |-> FALSE, valid |-> FALSE,
                                     message |-> "ok", data |-> [timestamp |-> now]],
                            !.pc = "done"]]
    /\ UNCHANGED <<licenses, verificationLogs, now>>

\* GET /api/licenses/:licenseKey: getLicenseByKey runs and is answered
GetLicense(p, licenseKey) ==
    /\ reqs[p].pc = "idle"
    /\ LET license == getLicenseByKey(licenses, licenseKey)
       IN reqs' = [reqs EXCEPT ![p] =
                     [@ EXCEPT !.kind = "get", !.licenseKey = licenseKey,
                               !.license = license,
                               !.res = [status |-> IF license = Null THEN 404 ELSE 200,
                                        hasValid |-> FALSE, valid |-> FALSE,
                                        message |-> IF license = Null
                                                    THEN "License not found" ELSE "",
                                        data |-> license],
                               !.pc = "done"]]
    /\ UNCHANGED <<licenses, verificationLogs, now>>

\* GET /api/licenses: getAllLicenses runs and is answered with its count
ListLicenses(p) ==
    /\ reqs[p].pc = "idle"
    /\ reqs' = [reqs EXCEPT ![p] =
                  [@ EXCEPT !.kind = "list",
                            !.res = [status |-> 200, hasValid |-> FALSE, valid |-> FALSE,
                                     message |-> "",
                                     data |-> [licenses |-> getAllLicenses(licenses),
                                               count |-> Cardinality(
                                                            getAllLicenses(licenses))]],
                            !.pc = "done"]]
    /\ UNCHANGED <<licenses, verificationLogs, now>>

\* DELETE /api/licenses/:licenseKey: deleteLicense runs and is answered
DeleteLicense(p, licenseKey) ==
    /\ reqs[p].pc = "idle"
    /\ licenses' = deleteLicenseStore(licenses, licenseKey)
    /\ reqs' = [reqs EXCEPT ![p] =
                  [@ EXCEPT !.kind = "delete", !.licenseKey = licenseKey,
                            !.res = IF deleteLicense(licenses, licenseKey)
                                    THEN [status |-> 200, hasValid |-> FALSE,
                                          valid |-> FALSE,
                                          message |-> "License deleted successfully",
                                          data |-> Null]
                                    ELSE [status |-> 404, hasValid |-> FALSE,
                                          valid |-> FALSE,
                                          message |-> "License not found",
                                          data |-> Null],
                            !.pc = "done"]]
    /\ UNCHANGED <<verificationLogs, now>>

\* --------------------------------- the other routes with a store that fails
\* the catch of the get, update, deactivate and delete handlers: the error is
\* printed and answered 500
InternalErrorResponse ==
    [status |-> 500, hasValid |-> FALSE, valid |-> FALSE,
     message |-> "Internal server error", data |-> Null]

HandlerCatch(r, error) ==
    [r EXCEPT !.error = error, !.res = InternalErrorResponse, !.pc = "done"]

\* a get request arrives and its getLicenseByKey throws
GetLicenseThrows(p, licenseKey) ==
    /\ reqs[p].pc = "idle"
    /\ LET r == [reqs[p] EXCEPT !.kind = "get", !.licenseKey = licenseKey]
       IN reqs' = [reqs EXCEPT ![p] =
                     IF getLicenseByKeyRethrows
                     THEN HandlerCatch(r, "Store unavailable")
                     ELSE [r EXCEPT !.error = "Store unavailable",
                                    !.res = [status |-> 404, hasValid |-> FALSE,
                                             valid |-> FALSE,
                                             message |-> "License not found",
                                             data |-> Null],
                                    !.pc = "done"]]
    /\ UNCHANGED <<licenses, verificationLogs, now>>

\* a deactivation request arrives and its getLicenseByKey throws
DeactivateLoadThrows(p, licenseKey, discordServerId) ==
    /\ reqs[p].pc = "idle"
    /\ LET r == [reqs[p] EXCEPT !.kind = "deactivate", !.licenseKey = licenseKey,
                                !.discordServerId = discordServerId]
       IN reqs' = [reqs EXCEPT ![p] =
                     IF getLicenseByKeyRethrows
                     THEN HandlerCatch(r, "Store unavailable")
                     ELSE [r EXCEPT !.error = "Store unavailable",
                                    !.res = DeactivateResponse(Null, discordServerId),
                                    !.pc = "done"]]
    /\ UNCHANGED <<licenses, verificationLogs, now>>

\* updateLicense of an update request throws; the store has applied the
\* update or it has not
PutUpdateThrows(p) ==
    /\ reqs[p].kind = "put" /\ reqs[p].pc = "update"
    /\ licenses' \in {licenses,
                      updateLicense(licenses, reqs[p].licenseKey,
                                    UpdateDoc(reqs[p].updates))}
    /\ reqs' = [reqs EXCEPT ![p] = HandlerCatch(@, "Store unavailable")]
    /\ UNCHANGED <<verificationLogs, now>>

\* a delete request arrives and its deleteLicense throws; the store has
\* deleted the license or it has not
DeleteLicenseThrows(p, licenseKey) ==
    /\ reqs[p].pc = "idle"
    /\ licenses' \in {licenses, deleteLicenseStore(licenses, licenseKey)}
    /\ reqs' = [reqs EXCEPT ![p] =
                  HandlerCatch([@ EXCEPT !.kind = "delete",
                                         !.licenseKey = licenseKey],
                               "Store unavailable")]
    /\ UNCHANGED <<verificationLogs, now>>

\* ------------------------------------------------------------------- clock
Tick ==
    /\ now < MaxTime
    /\ now' = now + 1
    /\ UNCHANGED <<licenses, verificationLogs, reqs>>

\* ------------------------------------------------------------ initial states
\* the first n guild ids, in order: <<>>, <<"A">>, <<"A", "B">>, ...
FirstGuilds(n) == [i \in 1 .. n |-> GuildIds[i]]

\* the validity of a license: never expiring, a fixed expiry at 1, and the
\* lifetime flag set on a license that also carries the expiry 1
NeverExpires == [lifetime |-> TRUE, expiresAt |-> NullDate]
FixedExpiry == [lifetime |-> FALSE, expiresAt |-> 1]
LifetimeWithDate == [lifetime |-> TRUE, expiresAt |-> 1]

\* the licenses a store can hold after createLicense and any number of
\* verifications and deactivations: maxGuilds in 1..MaxGuildsCap, and at most
\* maxGuilds distinct guilds activated
InitialLicenses(k, statuses, validities) ==
    {MkLicense(k, st, v.lifetime, v.expiresAt, mg, FirstGuilds(n)) :
        st \in statuses, v \in validities,
        mg \in 1 .. MaxGuildsCap, n \in 0 .. MaxGuildsCap}

\* the (licenseKey, discordServerId) pairs of the requests: every guild on the
\* license K1, one guild on the key K2
RequestInputs == {<<"K1", g>> : g \in Guilds} \cup {<<"K2", "A">>}

\* license K1 exists, K2 does not; slots is the set of requests
InitWith(slots, statuses, validities) ==
    /\ \E l \in InitialLicenses("K1", statuses, validities) :
          /\ Len(l.activation.allowedGuilds) <= l.activation.maxGuilds
          /\ licenses = [k \in Keys |-> IF k = "K1" THEN l ELSE Null]
    /\ verificationLogs = <<>>
    /\ now = 0
    /\ reqs = [p \in slots |-> IdleReq]

\* ------------------------------------- verifications and deactivations (SpecVD)
InitVD ==
    InitWith(Slots, {"active", "inactive"},
             {NeverExpires, FixedExpiry, LifetimeWithDate})

\* verifications and deactivations, in any interleaving
NextVD ==
    \/ Tick
    \/ \E p \in DOMAIN reqs, in \in RequestInputs : VerifyBegin(p, in[1], in[2])
    \/ \E p \in DOMAIN reqs : VerifyStep(p)
    \/ \E p \in DOMAIN reqs, in \in RequestInputs : DeactivateBegin(p, in[1], in[2])
    \/ \E p \in DOMAIN reqs : DeactivateRemove(p)

SpecVD == InitVD /\ [][NextVD]_vars

\* ---------------------------------------------------- sequential runs (SpecSeq)
\* request p arrives when every request before it has been answered
SeqTurn(p) == \A q \in DOMAIN reqs : q < p => reqs[q].pc = "done"

\* an active license that never expires
InitSeq == InitWith(1 .. MaxSeq, {"active"}, {NeverExpires})

\* verifications and deactivations one after the other, each answered before
\* the next arrives
NextSeq ==
    \/ \E p \in DOMAIN reqs, in \in RequestInputs :
          SeqTurn(p) /\ VerifyBegin(p, in[1], in[2])
    \/ \E p \in DOMAIN reqs : VerifyStep(p)
    \/ \E p \in DOMAIN reqs, in \in RequestInputs :
          SeqTurn(p) /\ DeactivateBegin(p, in[1], in[2])
    \/ \E p \in DOMAIN reqs : DeactivateRemove(p)

SpecSeq == InitSeq /\ [][NextSeq]_vars

\* ------------------------------------------------------------ bursts (SpecBurst)
\* an active license that never expires, with no guild activated, and
\* MaxBurst verifications of it, request p for the guild GuildIds[p]
InitBurst ==
    /\ \E mg \in 1 .. MaxGuildsCap :
          licenses = [k \in Keys |->
                        IF k = "K1"
                        THEN MkLicense("K1", "active", TRUE, NullDate, mg, <<>>)
                        ELSE Null]
    /\ verificationLogs = <<>>
    /\ now = 0
    /\ reqs = [p \in 1 .. MaxBurst |-> IdleReq]

NextBurst ==
    \/ \E p \in DOMAIN reqs : VerifyBegin(p, "K1", GuildIds[p])
    \/ \E p \in DOMAIN reqs : VerifyStep(p)

SpecBurst == InitBurst /\ [][NextBurst]_vars

\* ----------------------------------------- PUT /api/licenses/:licenseKey (handler)
\* updateLicenseSchema lets a payload through, and updateLicense runs in the
\* store with the update document built from it
PutLicense(licenseKey, updateDoc) ==
    /\ licenses' = updateLicense(licenses, licenseKey, updateDoc)
    /\ UNCHANGED <<verificationLogs, now, reqs>>

\* an operator suspends and resumes the license at any moment of a run of
\* verifications, each answered before the next arrives
NextStatus ==
    \/ Tick
    \/ \E p \in DOMAIN reqs, in \in RequestInputs :
          SeqTurn(p) /\ VerifyBegin(p, in[1], in[2])
    \/ \E p \in DOMAIN reqs : VerifyStep(p)
    \/ \E st \in {"active", "inactive"} : PutLicense("K1", "status" :> st)

InitStatus ==
    InitWith(Slots, {"active", "inactive"}, {NeverExpires, FixedExpiry})

SpecStatus == InitStatus /\ [][NextStatus]_vars

\* ------------------------- deactivations beside operator updates (SpecOps)
\* the update bodies of an operator who sets maxGuilds, below the number of
\* guilds the license holds too
OpsBodies == {"activation" :> ("maxGuilds" :> mg) : mg \in 1 .. MaxGuildsCap}

InitOps == InitWith(Slots, {"active", "inactive"}, {NeverExpires, FixedExpiry})

\* verifications, deactivations and updates of the license, in any interleaving
NextOps ==
    \/ Tick
    \/ \E p \in DOMAIN reqs, in \in RequestInputs : VerifyBegin(p, in[1], in[2])
    \/ \E p \in DOMAIN reqs : VerifyStep(p)
    \/ \E p \in DOMAIN reqs, in \in RequestInputs : DeactivateBegin(p, in[1], in[2])
    \/ \E p \in DOMAIN reqs : DeactivateRemove(p)
    \/ \E p \in DOMAIN reqs, body \in OpsBodies : PutBegin(p, "K1", body)
    \/ \E p \in DOMAIN reqs : PutUpdate(p)

SpecOps == InitOps /\ [][NextOps]_vars

\* ------------------------------------------- the verification log (SpecAudit)
\* the bodies of the verification requests: with and without a deviceId, for
\* the license K1 and the missing key K2, and bodies with the licenseKey or the
\* discordServerId missing or empty
AuditBodies ==
    {[licenseKey |-> "K1", discordServerId |-> g] : g \in {"A", "B"}}
    \cup {[licenseKey |-> "K1", discordServerId |-> g, deviceId |-> "dev1"] :
              g \in {"A", "B"}}
    \cup {[licenseKey |-> "K2", discordServerId |-> "A", deviceId |-> "dev1"]}
    \cup {[licenseKey |-> "K1"], [licenseKey |-> "K1", discordServerId |-> ""],
          [discordServerId |-> "A"], [licenseKey |-> "", discordServerId |-> "A"]}

InitAudit == InitWith(Slots, {"active", "inactive"}, {NeverExpires, FixedExpiry})

NextAudit ==
    \/ Tick
    \/ \E p \in DOMAIN reqs, body \in AuditBodies : VerifyRequest(p, body)
    \/ \E p \in DOMAIN reqs : VerifyStep(p)

SpecAudit == InitAudit /\ [][NextAudit]_vars

\* ----------------------------------------------------- updates (SpecPut)
\* the bodies of the update requests: one field, one sub-field, several, a
\* falsy date string, and bodies the schema rejects (no key, a status outside
\* the enum, a maxGuilds of 0)
PutBodies ==
    {[status |-> st] : st \in {"active", "inactive", "banned"}}
    \cup {[activation |-> [maxGuilds |-> mg]] : mg \in 0 .. MaxGuildsCap}
    \cup {[activation |-> [maxGuilds |-> 1, allowedGuilds |-> <<"C">>]],
          [validity |-> [lifetime |-> TRUE]],
          [validity |-> [expiresAt |-> NullDate]],
          [validity |-> [expiresAt |-> MaxTime]],
          [validity |-> [expiresAt |-> EmptyString]],
          [metadata |-> [notes |-> "note"]],
          [security |-> [readOnly |-> FALSE]],
          [lastChecked |-> MaxTime],
          [lastChecked |-> EmptyString],
          [status |-> "inactive", metadata |-> [reseller |-> "shop"]],
          [none \in {} |-> TRUE]}

InitPut == InitWith(Slots, {"active", "inactive"}, {NeverExpires, FixedExpiry})

\* updates of the license K1 and of the missing key K2, in any interleaving
NextPut ==
    \/ \E p \in DOMAIN reqs, k \in Keys, body \in PutBodies : PutBegin(p, k, body)
    \/ \E p \in DOMAIN reqs : PutUpdate(p)

SpecPut == InitPut /\ [][NextPut]_vars

\* ---------------------------------------------------- creations (SpecCreate)
\* the bodies of the creation requests, two for each key, and two that the
\* schema rejects
CreateBodies ==
    {[licenseKey |-> k, validity |-> NeverExpires, activation |-> [maxGuilds |-> 1]] :
        k \in Keys \cup {""}}
    \cup {[licenseKey |-> k, status |-> "inactive", validity |-> FixedExpiry,
           activation |-> [maxGuilds |-> mg, allowedGuilds |-> <<"C">>]] :
              k \in Keys, mg \in {0, MaxGuildsCap}}

InitCreate == InitWith(Slots, {"active"}, {NeverExpires})

\* creations, beside verifications of the two keys, in any interleaving
NextCreate ==
    \/ \E p \in DOMAIN reqs, body \in CreateBodies : CreateBegin(p, body)
    \/ \E p \in DOMAIN reqs : CreateInsert(p)
    \/ \E p \in DOMAIN reqs, in \in RequestInputs : VerifyBegin(p, in[1], in[2])
    \/ \E p \in DOMAIN reqs : VerifyStep(p)

SpecCreate == InitCreate /\ [][NextCreate]_vars

\* --------------------------------- verifications on a failing store (SpecFault)
InitFault == InitWith(Slots, {"active", "inactive"}, {NeverExpires, FixedExpiry})

\* verifications in any interleaving, any store operation of which may throw
NextFault ==
    \/ Tick
    \/ \E p \in DOMAIN reqs, in \in RequestInputs : VerifyBegin(p, in[1], in[2])
    \/ \E p \in DOMAIN reqs : VerifyStep(p)
    \/ \E p \in DOMAIN reqs, in \in RequestInputs : VerifyLoadThrows(p, in[1], in[2])
    \/ \E p \in DOMAIN reqs : VerifyAddThrows(p)
    \/ \E p \in DOMAIN reqs : VerifyTouchThrows(p)
    \/ \E p \in DOMAIN reqs : VerifyRereadThrows(p)
    \/ \E p \in DOMAIN reqs : VerifyLogFails(p)

SpecFault == InitFault /\ [][NextFault]_vars

\* ---------------------------------------------------- log queries (SpecLogs)
MaxLogs == 3        \* the requests of a run of verifications and log queries

\* the queries: with and without a licenseKey, with and without a limit
LogQueries ==
    {[none \in {} |-> ""], [licenseKey |-> "K1"], [licenseKey |-> "K2"]}
    \cup {[limit |-> n] : n \in {"", "0", "1", "2"}}
    \cup {[licenseKey |-> "K1", limit |-> n] : n \in {"0", "1"}}

InitLogs == InitWith(1 .. MaxLogs, {"active"}, {NeverExpires})

\* verifications and log queries one after the other, as the clock advances
NextLogs ==
    \/ Tick
    \/ \E p \in DOMAIN reqs, in \in RequestInputs :
          SeqTurn(p) /\ VerifyBegin(p, in[1], in[2])
    \/ \E p \in DOMAIN reqs : VerifyStep(p)
    \/ \E p \in DOMAIN reqs, query \in LogQueries : SeqTurn(p) /\ LogsQuery(p, query)

SpecLogs == InitLogs /\ [][NextLogs]_vars

\* ------------------------------------------------ all the routes (SpecApi)
\* the headers of the requests: none, each header alone with the right key, a
\* wrong one and an empty one, an Authorization without "Bearer ", of "Bearer "
\* alone and with "Bearer " after the key, and the two headers together
HeaderSets ==
    {[none \in {} |-> <<>>]}
    \cup {[xApiKey |-> v] : v \in {<<>>, <<"k">>, <<"x">>}}
    \cup {[authorization |-> v] :
              v \in {<<"Bearer ", "k">>, <<"Bearer ", "x">>, <<"k">>, <<"Bearer ">>,
                     <<"k", "Bearer ">>}}
    \cup {[xApiKey |-> <<"x">>, authorization |-> <<"Bearer ", "k">>],
          [xApiKey |-> <<"k">>, authorization |-> <<"Bearer ", "x">>],
          [xApiKey |-> <<>>, authorization |-> <<"Bearer ", "k">>]}

InitApi == InitWith(Slots, {"active"}, {NeverExpires})

\* requests to every route, each answered before the next arrives
NextApi ==
    \/ \E p \in DOMAIN reqs, endpoint \in Endpoints, rateLimited \in BOOLEAN,
          headers \in HeaderSets :
          SeqTurn(p) /\ Arrive(p, endpoint, rateLimited, headers)
    \/ \E p \in DOMAIN reqs : SeqTurn(p) /\ Health(p)
    \/ \E p \in DOMAIN reqs, g \in {"A", ""} :
          Admitted(p, "verify")
             /\ VerifyRequest(p, [licenseKey |-> "K1", discordServerId |-> g])
    \/ \E p \in DOMAIN reqs : VerifyStep(p)
    \/ \E p \in DOMAIN reqs : Admitted(p, "deactivate") /\ DeactivateBegin(p, "K1", "A")
    \/ \E p \in DOMAIN reqs : DeactivateRemove(p)
    \/ \E p \in DOMAIN reqs :
          Admitted(p, "put") /\ PutBegin(p, "K1", [status |-> "inactive"])
    \/ \E p \in DOMAIN reqs : PutUpdate(p)
    \/ \E p \in DOMAIN reqs :
          Admitted(p, "create")
             /\ CreateBegin(p, [licenseKey |-> "K2", validity |-> NeverExpires,
                                activation |-> [maxGuilds |-> 1]])
    \/ \E p \in DOMAIN reqs : CreateInsert(p)
    \/ \E p \in DOMAIN reqs : Admitted(p, "logs") /\ LogsQuery(p, [limit |-> "1"])
    \/ \E p \in DOMAIN reqs : Admitted(p, "get") /\ GetLicense(p, "K1")
    \/ \E p \in DOMAIN reqs : Admitted(p, "list") /\ ListLicenses(p)
    \/ \E p \in DOMAIN reqs : Admitted(p, "delete") /\ DeleteLicense(p, "K1")

SpecApi == InitApi /\ [][NextApi]_vars

\* ------------------------------------- every operation in a race (SpecRace)
\* the update bodies of an operator: the status set to inactive, maxGuilds set
\* to 1, and allowedGuilds set to a list of three guilds
RaceBodies ==
    {"status" :> "inactive",
     "activation" :> ("maxGuilds" :> 1),
     "activation" :> ("allowedGuilds" :> <<"A", "B", "C">>)}

\* the creation bodies: a license K2 with maxGuilds 1 and no guild, and one
\* with maxGuilds 1 and two guilds in allowedGuilds
RaceCreateBodies ==
    {[licenseKey |-> "K2", validity |-> NeverExpires,
      activation |-> [maxGuilds |-> 1]],
     [licenseKey |-> "K2", validity |-> NeverExpires,
      activation |-> [maxGuilds |-> 1, allowedGuilds |-> <<"A", "B">>]]}

\* the guilds of the requests of a race
RaceGuilds == {"A", "B"}

\* three requests in flight together
RaceSlots == {1, 2, 3}

InitRace == InitWith(RaceSlots, {"active"}, {NeverExpires})

\* three requests of any kind on the license K1 (and creations of K2), in any
\* interleaving
NextRace ==
    \/ \E p \in DOMAIN reqs, g \in RaceGuilds : VerifyBegin(p, "K1", g)
    \/ \E p \in DOMAIN reqs : VerifyStep(p)
    \/ \E p \in DOMAIN reqs, g \in RaceGuilds : DeactivateBegin(p, "K1", g)
    \/ \E p \in DOMAIN reqs : DeactivateRemove(p)
    \/ \E p \in DOMAIN reqs, body \in RaceBodies : PutBegin(p, "K1", body)
    \/ \E p \in DOMAIN reqs : PutUpdate(p)
    \/ \E p \in DOMAIN reqs, body \in RaceCreateBodies : CreateBegin(p, body)
    \/ \E p \in DOMAIN reqs : CreateInsert(p)
    \/ \E p \in DOMAIN reqs : DeleteLicense(p, "K1")

SpecRace == InitRace /\ [][NextRace]_vars

\* --------------------------------- loads that fail on every route (SpecOutage)
InitOutage == InitWith(Slots, {"active"}, {NeverExpires})

\* verifications, gets, updates, deactivations and deletions of the license
\* K1 and of the missing key K2, in any interleaving; the store operation that
\* looks the license up may throw in each
NextOutage ==
    \/ \E p \in DOMAIN reqs, k \in Keys : VerifyBegin(p, k, "A")
    \/ \E p \in DOMAIN reqs : VerifyStep(p)
    \/ \E p \in DOMAIN reqs, k \in Keys : VerifyLoadThrows(p, k, "A")
    \/ \E p \in DOMAIN reqs, k \in Keys : GetLicense(p, k)
    \/ \E p \in DOMAIN reqs, k \in Keys : GetLicenseThrows(p, k)
    \/ \E p \in DOMAIN reqs, k \in Keys : DeactivateBegin(p, k, "A")
    \/ \E p \in DOMAIN reqs : DeactivateRemove(p)
    \/ \E p \in DOMAIN reqs, k \in Keys : DeactivateLoadThrows(p, k, "A")
    \/ \E p \in DOMAIN reqs, k \in Keys : PutBegin(p, k, "status" :> "inactive")
    \/ \E p \in DOMAIN reqs : PutUpdate(p)
    \/ \E p \in DOMAIN reqs : PutUpdateThrows(p)
    \/ \E p \in DOMAIN reqs, k \in Keys : DeleteLicense(p, k)
    \/ \E p \in DOMAIN reqs, k \in Keys : DeleteLicenseThrows(p, k)

SpecOutage == InitOutage /\ [][NextOutage]_vars

\* ------------------------------------------------ two licenses (SpecTwo)
\* the update bodies of an operator: the status set to inactive, maxGuilds
\* set to 1
TwoBodies == {"status" :> "inactive", "activation" :> ("maxGuilds" :> 1)}

\* the licenses K1 and K2 both exist, each active and never expiring, each
\* with at most maxGuilds guilds
InitTwo ==
    /\ \E l1 \in InitialLicenses("K1", {"active"}, {NeverExpires}),
          l2 \in InitialLicenses("K2", {"active"}, {NeverExpires}) :
          /\ Len(l1.activation.allowedGuilds) <= l1.activation.maxGuilds
          /\ Len(l2.activation.allowedGuilds) <= l2.activation.maxGuilds
          /\ licenses = [k \in Keys |-> IF k = "K1" THEN l1 ELSE l2]
    /\ verificationLogs = <<>>
    /\ now = 0
    /\ reqs = [p \in Slots |-> IdleReq]

\* verifications, deactivations, updates and deletions addressed to either
\* license, in any interleaving
NextTwo ==
    \/ \E p \in DOMAIN reqs, k \in Keys, g \in RaceGuilds : VerifyBegin(p, k, g)
    \/ \E p \in DOMAIN reqs : VerifyStep(p)
    \/ \E p \in DOMAIN reqs, k \in Keys, g \in RaceGuilds : DeactivateBegin(p, k, g)
    \/ \E p \in DOMAIN reqs : DeactivateRemove(p)
    \/ \E p \in DOMAIN reqs, k \in Keys, body \in TwoBodies : PutBegin(p, k, body)
    \/ \E p \in DOMAIN reqs : PutUpdate(p)
    \/ \E p \in DOMAIN reqs, k \in Keys : DeleteLicense(p, k)

SpecTwo == InitTwo /\ [][NextTwo]_vars

\* ------------------------------------------------ expiry (SpecExpiry)
\* lifetime false and no expiry date
OpenEnded == [lifetime |-> FALSE, expiresAt |-> NullDate]

\* the licenses K1 and K2 both exist and are active, each with any of the four
\* validities and room for a guild
InitExpiry ==
    /\ \E v1, v2 \in {NeverExpires, FixedExpiry, LifetimeWithDate, OpenEnded},
          mg \in 1 .. MaxGuildsCap :
          licenses = [k \in Keys |->
                        MkLicense(k, "active",
                                  IF k = "K1" THEN v1.lifetime ELSE v2.lifetime,
                                  IF k = "K1" THEN v1.expiresAt ELSE v2.expiresAt,
                                  mg, <<>>)]
    /\ verificationLogs = <<>>
    /\ now = 0
    /\ reqs = [p \in Slots |-> IdleReq]

\* verifications of either license by the guild A while the clock advances
NextExpiry ==
    \/ Tick
    \/ \E p \in DOMAIN reqs, k \in Keys : VerifyBegin(p, k, "A")
    \/ \E p \in DOMAIN reqs : VerifyStep(p)

SpecExpiry == InitExpiry /\ [][NextExpiry]_vars

\* ----------------------------------- a license over its maximum (SpecOver)
\* the update body of an operator that lowers maxGuilds to 1
OverBodies == {"activation" :> ("maxGuilds" :> 1)}

InitOver == InitWith(RaceSlots, {"active"}, {NeverExpires})

\* verifications and deactivations by the guilds A, B and C and updates that
\* lower maxGuilds, three requests in any interleaving
NextOver ==
    \/ \E p \in DOMAIN reqs, g \in Guilds : VerifyBegin(p, "K1", g)
    \/ \E p \in DOMAIN reqs : VerifyStep(p)
    \/ \E p \in DOMAIN reqs, g \in Guilds : DeactivateBegin(p, "K1", g)
    \/ \E p \in DOMAIN reqs : DeactivateRemove(p)
    \/ \E p \in DOMAIN reqs, body \in OverBodies : PutBegin(p, "K1", body)
    \/ \E p \in DOMAIN reqs : PutUpdate(p)

SpecOver == InitOver /\ [][NextOver]_vars

\* ------------------------------- requests on a store that answers (SpecLive)
InitLive == InitWith(RaceSlots, {"active"}, {NeverExpires})

\* three verifications and deactivations of the license K1, in any
\* interleaving
NextLive ==
    \/ \E p \in DOMAIN reqs, g \in RaceGuilds : VerifyBegin(p, "K1", g)
    \/ \E p \in DOMAIN reqs : VerifyStep(p)
    \/ \E p \in DOMAIN reqs, g \in RaceGuilds : DeactivateBegin(p, "K1", g)
    \/ \E p \in DOMAIN reqs : DeactivateRemove(p)

\* the step of request p that follows the store call it awaits
Resume(p) == VerifyStep(p) \/ DeactivateRemove(p)

\* the store answers every call, and the event loop runs the continuation of
\* every await whose promise has settled: a request that can step does step
SpecLive ==
    InitLive /\ [][NextLive]_vars /\ \A p \in RaceSlots : WF_vars(Resume(p))

\* ================================================================== claims
\* the verification requests, and those among them that have been answered
IsVerify(p) == reqs[p].kind = "verify"
IsDeactivate(p) == reqs[p].kind = "deactivate"
Answered(p) == reqs[p].pc = "done"
Quiescent == \A p \in DOMAIN reqs : reqs[p].pc \in {"idle", "done"}
MaxGuildsMessage == "Maximum number of guilds reached for this license"
Members(k) == licenses[k].activation.allowedGuilds

\* C1: under any interleaving of verifications and deactivations, from a
\* license with at most maxGuilds guilds, allowedGuilds never holds more than
\* maxGuilds guilds.
C1_CapacityInvariant ==
    \A k \in Keys :
        licenses[k] # Null => Len(Members(k)) <= licenses[k].activation.maxGuilds

\* C1 witness: two verifications raced for the last slot: both loaded the
\* license while it had a free slot, one was refused, and the license is full.
C1_Witness ==
    \E p, q \in DOMAIN reqs :
        /\ p # q /\ IsVerify(p) /\ IsVerify(q) /\ Answered(p) /\ Answered(q)
        /\ reqs[p].licenseKey = "K1" /\ reqs[q].licenseKey = "K1"
        /\ Len(reqs[p].license.activation.allowedGuilds)
              < reqs[p].license.activation.maxGuilds
        /\ reqs[q].license = reqs[p].license
        /\ reqs[p].res.valid
        /\ reqs[q].res.message = MaxGuildsMessage
        /\ Len(Members("K1")) = licenses["K1"].activation.maxGuilds

\* C2: K verifications for K distinct guilds of an active, unexpired license
\* with maxGuilds = N and no guild activated: once all K are answered, exactly
\* min(N, K) got valid=true, the other K - min(N, K) got the maximum-guilds
\* verdict, and allowedGuilds holds exactly min(N, K) guilds.
C2_BurstOutcome ==
    Quiescent =>
        LET done == {p \in DOMAIN reqs : Answered(p)}
            valid == {p \in done : reqs[p].res.valid}
            refused == {p \in done : reqs[p].res.message = MaxGuildsMessage}
            n == licenses["K1"].activation.maxGuilds
        IN /\ Cardinality(valid) = Min(n, Cardinality(done))
           /\ Cardinality(refused) = Cardinality(done) - Min(n, Cardinality(done))
           /\ valid \cap refused = {}
           /\ Len(Members("K1")) = Min(n, Cardinality(done))
           /\ \A p \in valid : Includes(Members("K1"), reqs[p].discordServerId)

\* C2 witness: one slot and MaxBurst callers, every one of which loaded the
\* license while it was empty: all are answered and one guild is activated.
C2_Witness ==
    /\ licenses["K1"].activation.maxGuilds = 1
    /\ \A p \in DOMAIN reqs :
          /\ Answered(p)
          /\ reqs[p].license.activation.allowedGuilds = <<>>
    /\ Cardinality({p \in DOMAIN reqs : reqs[p].res.valid}) = 1
    /\ Len(Members("K1")) = 1

\* C3: a verification whose guild is in allowedGuilds when its addActiveGuild
\* runs is not refused and leaves allowedGuilds as it was, at full capacity
\* too; every verification whose add was not refused is answered valid=true;
\* and no guild is ever in allowedGuilds twice, so that repeated verifications
\* of one guild hold one slot.
C3_AddStep ==
    \A p \in DOMAIN reqs :
        ( /\ reqs[p].pc = "add" /\ reqs'[p] # reqs[p]
          /\ licenses[reqs[p].licenseKey] # Null
          /\ Includes(Members(reqs[p].licenseKey), reqs[p].discordServerId) )
        => /\ licenses'[reqs[p].licenseKey].activation.allowedGuilds
                 = Members(reqs[p].licenseKey)
           /\ reqs'[p].pc = "stamp"
           /\ reqs'[p].updatedLicense # Null

C3_Answer ==
    /\ \A p \in DOMAIN reqs :
          IsVerify(p) /\ Answered(p) /\ reqs[p].updatedLicense # Null
             => reqs[p].res.valid /\ reqs[p].res.status = 200
    /\ \A k \in Keys : licenses[k] # Null => NoDuplicates(Members(k))

C3_IdempotentReAdd == [][C3_AddStep]_vars /\ []C3_Answer

\* C3 witness: a guild that was activated already, on a license at full
\* capacity, has verified again and was answered valid.
C3_Witness ==
    \E p \in DOMAIN reqs :
        /\ IsVerify(p) /\ Answered(p) /\ reqs[p].res.valid
        /\ reqs[p].res.message = "License is valid (guild already active)"
        /\ Len(reqs[p].license.activation.allowedGuilds)
              = reqs[p].license.activation.maxGuilds
        /\ reqs[p].res.data.activation.allowedGuilds
              = reqs[p].license.activation.allowedGuilds

\* C4: the checks run in the order missing, not active, expired, capacity,
\* and the answer is that of the first that fails: on the license as loaded
\* and the clock as read by the handler, a missing license is answered not
\* found; an inactive one inactive, whether expired or full or not; an active
\* expired one expired, whether full or not; and maximum-guilds is answered
\* only for a license loaded active and unexpired.
C4_CheckOrder ==
    \A p \in DOMAIN reqs :
        IsVerify(p) /\ Answered(p) =>
            LET l == reqs[p].license
                t == reqs[p].logEntry.timestamp
                m == reqs[p].res.message
                expired == /\ ~l.validity.lifetime
                           /\ l.validity.expiresAt # NullDate
                           /\ t > l.validity.expiresAt
            IN /\ l = Null => m = "License not found"
               /\ l # Null /\ l.status = "inactive" => m = "License is inactive"
               /\ l # Null /\ l.status = "active" /\ expired
                     => m = "License has expired"
               /\ m = MaxGuildsMessage
                     => l # Null /\ l.status = "active" /\ ~expired
               /\ m \in {"License not found", "License is inactive",
                         "License has expired", MaxGuildsMessage}
                     => ~reqs[p].res.valid

\* C4 witness: a license that is inactive, expired and full was verified by a
\* guild it does not hold, and the answer is the inactive one.
C4_Witness ==
    \E p \in DOMAIN reqs :
        /\ IsVerify(p) /\ Answered(p) /\ reqs[p].license # Null
        /\ reqs[p].license.status = "inactive"
        /\ reqs[p].license.validity = FixedExpiry
        /\ reqs[p].logEntry.timestamp > reqs[p].license.validity.expiresAt
        /\ Len(reqs[p].license.activation.allowedGuilds)
              = reqs[p].license.activation.maxGuilds
        /\ ~Includes(reqs[p].license.activation.allowedGuilds, reqs[p].discordServerId)
        /\ reqs[p].res.message = "License is inactive"

\* C5: a verification that starts while the license's status is inactive (an
\* update to inactive has completed and none back to active) loads it as
\* inactive, never reaches addActiveGuild, changes no license in any of its
\* steps, and is answered valid=false with the inactive message, whatever the
\* license's expiry and capacity.
C5_Suspended(p) ==
    /\ IsVerify(p) /\ reqs[p].license # Null
    /\ reqs[p].license.status = "inactive"

C5_Answer ==
    \A p \in DOMAIN reqs :
        C5_Suspended(p) =>
            /\ reqs[p].pc \in {"check", "log", "done"}
            /\ reqs[p].updatedLicense = Null
            /\ Answered(p) => /\ ~reqs[p].res.valid
                              /\ reqs[p].res.message = "License is inactive"

C5_Step ==
    \A p \in DOMAIN reqs :
        /\ ( /\ reqs[p].pc = "idle" /\ reqs'[p].kind = "verify"
             /\ licenses[reqs'[p].licenseKey] # Null
             /\ licenses[reqs'[p].licenseKey].status = "inactive" )
           => reqs'[p].license.status = "inactive"
        /\ C5_Suspended(p) /\ reqs'[p] # reqs[p] => licenses' = licenses

C5_InactiveFailsVerification == [][C5_Step]_vars /\ []C5_Answer

\* C5 witness: a guild verified and was activated, the license was then set
\* inactive, and the same guild's next verification was answered inactive
\* although the license never expires and holds the guild.
C5_Witness ==
    /\ IsVerify(1) /\ Answered(1) /\ reqs[1].res.valid
    /\ IsVerify(2) /\ Answered(2)
    /\ reqs[2].licenseKey = reqs[1].licenseKey
    /\ reqs[2].discordServerId = reqs[1].discordServerId
    /\ reqs[2].license.validity = NeverExpires
    /\ Includes(reqs[2].license.activation.allowedGuilds, reqs[2].discordServerId)
    /\ reqs[2].res.message = "License is inactive"
    /\ ~reqs[2].res.valid

\* C6: a verification of a license with a fixed expiry (lifetime false, an
\* expiresAt) that lies strictly before the clock the handler reads never
\* reaches addActiveGuild, changes no license in any of its steps, and is not
\* answered valid=true, whether the license is active or inactive.
C6_Expired(p) ==
    /\ IsVerify(p) /\ reqs[p].license # Null /\ reqs[p].logEntry # Null
    /\ ~reqs[p].license.validity.lifetime
    /\ reqs[p].license.validity.expiresAt # NullDate
    /\ reqs[p].license.validity.expiresAt < reqs[p].logEntry.timestamp

C6_Answer ==
    \A p \in DOMAIN reqs :
        C6_Expired(p) =>
            /\ reqs[p].pc \in {"log", "done"}
            /\ reqs[p].updatedLicense = Null
            /\ ~reqs[p].res.valid

C6_Step ==
    \A p \in DOMAIN reqs :
        C6_Expired(p) /\ reqs'[p] # reqs[p] => licenses' = licenses

C6_ExpiredFailsVerification == [][C6_Step]_vars /\ []C6_Answer

\* C6 witness: an active license with a free slot, verified after its expiry,
\* is answered expired, and no guild was added.
C6_Witness ==
    \E p \in DOMAIN reqs :
        /\ C6_Expired(p) /\ Answered(p)
        /\ reqs[p].license.status = "active"
        /\ Len(reqs[p].license.activation.allowedGuilds)
              < reqs[p].license.activation.maxGuilds
        /\ reqs[p].res.message = "License has expired"
        /\ ~Includes(Members(reqs[p].licenseKey), reqs[p].discordServerId)

\* C7: for a license loaded active with a fixed expiry, the answer is the
\* expired one exactly when the clock the handler reads is past the expiry:
\* with the clock at the expiry or before it, the verification is not failed
\* by the expiry check.
C7_ExpiryBoundary ==
    \A p \in DOMAIN reqs :
        ( /\ IsVerify(p) /\ Answered(p) /\ reqs[p].license # Null
          /\ reqs[p].license.status = "active"
          /\ ~reqs[p].license.validity.lifetime
          /\ reqs[p].license.validity.expiresAt # NullDate )
        => LET t == reqs[p].logEntry.timestamp
               expiry == reqs[p].license.validity.expiresAt
               m == reqs[p].res.message
           IN /\ (m = "License has expired") <=> (t > expiry)
              /\ t <= expiry => reqs[p].res.valid \/ m = MaxGuildsMessage
              /\ m = "License has expired" => reqs[p].res.data.expiresAt = expiry

\* C7 witness: one verification with the clock at the expiry, answered valid,
\* and one with the clock one past it, answered expired.
C7_Witness ==
    \E p, q \in DOMAIN reqs :
        /\ IsVerify(p) /\ Answered(p) /\ IsVerify(q) /\ Answered(q)
        /\ reqs[p].license # Null /\ reqs[q].license # Null
        /\ reqs[p].license.validity = FixedExpiry
        /\ reqs[q].license.validity = FixedExpiry
        /\ reqs[p].logEntry.timestamp = reqs[p].license.validity.expiresAt
        /\ reqs[p].res.valid
        /\ reqs[q].logEntry.timestamp = reqs[q].license.validity.expiresAt + 1
        /\ reqs[q].res.message = "License has expired"

\* C8: a verification answered not found, inactive, expired or maximum guilds
\* has changed allowedGuilds of no license: every step of a verification that
\* changes some allowedGuilds is an addActiveGuild that returned a document,
\* and a verification with one of those four answers never had one returned.
FailureMessages ==
    {"License not found", "License is inactive", "License has expired",
     MaxGuildsMessage}

AllMembers(store) ==
    [k \in Keys |-> IF store[k] = Null THEN <<>> ELSE store[k].activation.allowedGuilds]

C8_Step ==
    \A p \in DOMAIN reqs :
        /\ ( /\ IsVerify(p) /\ reqs'[p] # reqs[p]
             /\ AllMembers(licenses') # AllMembers(licenses) )
           => reqs[p].pc = "add" /\ reqs'[p].updatedLicense # Null
        /\ IsVerify(p) /\ reqs[p].updatedLicense # Null
           => reqs'[p].updatedLicense # Null

C8_Answer ==
    \A p \in DOMAIN reqs :
        IsVerify(p) /\ Answered(p) /\ reqs[p].res.message \in FailureMessages
           => /\ reqs[p].updatedLicense = Null
              /\ ~reqs[p].res.valid

C8_FailedVerificationFrame == [][C8_Step]_vars /\ []C8_Answer

\* C8 witness: a verification lost the race for the last slot: it loaded the
\* license with a free slot, was answered maximum guilds, and its guild is
\* not in allowedGuilds.
C8_Witness ==
    \E p \in DOMAIN reqs :
        /\ IsVerify(p) /\ Answered(p) /\ reqs[p].license # Null
        /\ Len(reqs[p].license.activation.allowedGuilds)
              < reqs[p].license.activation.maxGuilds
        /\ reqs[p].res.message = MaxGuildsMessage
        /\ ~Includes(Members(reqs[p].licenseKey), reqs[p].discordServerId)
        /\ Len(Members(reqs[p].licenseKey))
              = licenses[reqs[p].licenseKey].activation.maxGuilds

\* C9: in a run of requests answered one after the other on an active license
\* that never expires: when a deactivation of a guild of a full license is
\* answered with success, and the next request is a verification of the same
\* license for a guild that is not in allowedGuilds after the removal, that
\* verification is answered valid and its guild is activated.  And on
\* maxGuilds = 1 with no guild activated, Verify(A), Verify(B), Deactivate(A),
\* Verify(B) are answered valid with allowedGuilds <<A>>, maximum guilds with
\* allowedGuilds still <<A>>, deactivated with allowedGuilds <<>>, and valid
\* with allowedGuilds <<B>>.
C9_IsRequest(p, kind, licenseKey, discordServerId) ==
    /\ Answered(p) /\ reqs[p].kind = kind
    /\ reqs[p].licenseKey = licenseKey
    /\ reqs[p].discordServerId = discordServerId

C9_Frees ==
    \A i \in DOMAIN reqs :
        ( /\ i + 1 \in DOMAIN reqs
          /\ IsDeactivate(i) /\ Answered(i) /\ reqs[i].res.status = 200
          /\ Len(reqs[i].license.activation.allowedGuilds)
                = reqs[i].license.activation.maxGuilds
          /\ IsVerify(i + 1) /\ Answered(i + 1)
          /\ reqs[i + 1].licenseKey = reqs[i].licenseKey
          /\ ~Includes(reqs[i].updatedLicense.activation.allowedGuilds,
                       reqs[i + 1].discordServerId) )
        => /\ reqs[i + 1].res.valid
           /\ reqs[i + 1].res.message = "License is valid (guild activated)"
           /\ Includes(reqs[i + 1].res.data.activation.allowedGuilds,
                       reqs[i + 1].discordServerId)
           /\ ~Includes(reqs[i + 1].res.data.activation.allowedGuilds,
                        reqs[i].discordServerId)
              \/ reqs[i].discordServerId = reqs[i + 1].discordServerId

C9_Scenario ==
    ( /\ C9_IsRequest(1, "verify", "K1", "A")
      /\ reqs[1].license.activation.maxGuilds = 1
      /\ reqs[1].license.activation.allowedGuilds = <<>>
      /\ C9_IsRequest(2, "verify", "K1", "B")
      /\ C9_IsRequest(3, "deactivate", "K1", "A")
      /\ C9_IsRequest(4, "verify", "K1", "B") )
    => /\ reqs[1].res.valid
       /\ reqs[1].res.data.activation.allowedGuilds = <<"A">>
       /\ reqs[2].res.message = MaxGuildsMessage /\ ~reqs[2].res.valid
       /\ reqs[3].license.activation.allowedGuilds = <<"A">>
       /\ reqs[3].res.status = 200
       /\ reqs[3].res.message = "Guild deactivated successfully"
       /\ reqs[3].res.data.activation.allowedGuilds = <<>>
       /\ reqs[4].res.valid
       /\ reqs[4].res.data.activation.allowedGuilds = <<"B">>

C9_DeactivationFreesSlot == C9_Frees /\ C9_Scenario

\* C9 witness: the four requests of the scenario have been answered, and the
\* license holds the guild B alone.
C9_Witness ==
    /\ C9_IsRequest(1, "verify", "K1", "A")
    /\ reqs[1].license.activation.maxGuilds = 1
    /\ reqs[1].license.activation.allowedGuilds = <<>>
    /\ C9_IsRequest(2, "verify", "K1", "B")
    /\ C9_IsRequest(3, "deactivate", "K1", "A")
    /\ C9_IsRequest(4, "verify", "K1", "B")
    /\ Members("K1") = <<"B">>

\* C10: a deactivation that loads no license is answered 404 license not
\* found; one that loads a license without its guild in allowedGuilds is
\* answered 400 guild is not active; the two answers differ in status and
\* message; and neither request changes a license: each is answered in the
\* step of its load, which leaves the store as it is.
C10_NotFound(r) == r.kind = "deactivate" /\ r.license = Null

C10_NotMember(r) ==
    /\ r.kind = "deactivate" /\ r.license # Null
    /\ ~Includes(r.license.activation.allowedGuilds, r.discordServerId)

C10_Answer ==
    \A p \in DOMAIN reqs :
        Answered(p) =>
            /\ C10_NotFound(reqs[p])
                  => /\ reqs[p].res.status = 404
                     /\ reqs[p].res.message = "License not found"
            /\ C10_NotMember(reqs[p])
                  => /\ reqs[p].res.status = 400
                     /\ reqs[p].res.message = "Guild is not active for this license"
            /\ \A q \in DOMAIN reqs :
                  Answered(q) /\ C10_NotFound(reqs[p]) /\ C10_NotMember(reqs[q])
                     => /\ reqs[p].res.status # reqs[q].res.status
                        /\ reqs[p].res.message # reqs[q].res.message

C10_Step ==
    \A p \in DOMAIN reqs :
        reqs'[p] # reqs[p] /\ (C10_NotFound(reqs'[p]) \/ C10_NotMember(reqs'[p]))
           => /\ licenses' = licenses
              /\ verificationLogs' = verificationLogs
              /\ reqs'[p].pc = "done"

C10_DeactivationDistinctness == [][C10_Step]_vars /\ []C10_Answer

\* C10 witness: one deactivation on the missing key and one of a guild the
\* license does not hold have both been answered.
C10_Witness ==
    \E p, q \in DOMAIN reqs :
        /\ Answered(p) /\ C10_NotFound(reqs[p]) /\ reqs[p].res.status = 404
        /\ Answered(q) /\ C10_NotMember(reqs[q]) /\ reqs[q].res.status = 400
        /\ licenses["K1"] # Null /\ licenses[reqs[p].licenseKey] = Null

\* C11: a deactivation of a guild that the license holds is answered with
\* success, and its removal takes exactly that guild out of allowedGuilds:
\* every other guild stays, in its place, and no other field of the license
\* and no other license changes.  This is so for an active and an inactive
\* license, before and after its expiry, and with fewer guilds than maxGuilds,
\* as many, or more.
C11_Answer ==
    \A p \in DOMAIN reqs :
        ( /\ IsDeactivate(p) /\ Answered(p) /\ reqs[p].license # Null
          /\ Includes(reqs[p].license.activation.allowedGuilds,
                      reqs[p].discordServerId) )
        => /\ reqs[p].res.status = 200
           /\ reqs[p].res.message = "Guild deactivated successfully"
           /\ ~Includes(reqs[p].res.data.activation.allowedGuilds,
                        reqs[p].discordServerId)

C11_Step ==
    \A p \in DOMAIN reqs :
        ( /\ IsDeactivate(p) /\ reqs[p].pc = "remove" /\ reqs'[p] # reqs[p]
          /\ licenses[reqs[p].licenseKey] # Null )
        => LET k == reqs[p].licenseKey
               g == reqs[p].discordServerId
               old == Members(k)
               new == licenses'[k].activation.allowedGuilds
               others(seq) == SelectSeq(seq, LAMBDA x : x # g)
           IN /\ ~Includes(new, g)
              /\ new = others(old)
              /\ Len(new) = Len(old) - (IF Includes(old, g) THEN 1 ELSE 0)
              /\ licenses' = [licenses EXCEPT ![k].activation.allowedGuilds = new]

C11_DeactivationRemovesMember == [][C11_Step]_vars /\ []C11_Answer

\* C11 witness: a license that is inactive, past its expiry and holds more
\* guilds than its maxGuilds had one of its guilds deactivated: the answer is
\* the success, and the other guild is still there.
C11_Witness ==
    \E p \in DOMAIN reqs :
        /\ IsDeactivate(p) /\ Answered(p) /\ reqs[p].res.status = 200
        /\ reqs[p].license.status = "inactive"
        /\ reqs[p].license.validity = FixedExpiry
        /\ now > reqs[p].license.validity.expiresAt
        /\ Len(reqs[p].license.activation.allowedGuilds)
              > reqs[p].license.activation.maxGuilds
        /\ Len(reqs[p].res.data.activation.allowedGuilds)
              = Len(reqs[p].license.activation.allowedGuilds) - 1
        /\ Len(reqs[p].res.data.activation.allowedGuilds) >= 1

\* C12: every verification whose body passes validation appends exactly one
\* entry to the verification log, whether it is answered not found, inactive,
\* expired, maximum guilds or valid: the log grows only by a verification's
\* logging step, then by one entry, which carries the request's licenseKey,
\* discordServerId and deviceId and the reason of the answer; the log holds as
\* many entries as verifications have logged; and every answered verification
\* has its entry in the log.
C12_Validated(p) == IsVerify(p) /\ reqs[p].body = Null

C12_ReasonOf(res) ==
    IF res.valid THEN "Valid license"
    ELSE IF res.message = MaxGuildsMessage THEN "Maximum guilds reached"
    ELSE res.message

C12_Carries(entry, p) ==
    /\ entry.licenseKey = reqs[p].licenseKey
    /\ entry.discordServerId = reqs[p].discordServerId
    /\ entry.deviceId = reqs[p].deviceId

C12_Step ==
    /\ verificationLogs' # verificationLogs =>
          \E p \in DOMAIN reqs :
              /\ C12_Validated(p) /\ reqs[p].pc \in {"log", "logValid"}
              /\ reqs'[p] # reqs[p]
              /\ Len(verificationLogs') = Len(verificationLogs) + 1
              /\ SubSeq(verificationLogs', 1, Len(verificationLogs)) = verificationLogs
              /\ C12_Carries(verificationLogs'[Len(verificationLogs')], p)
    /\ \A p \in DOMAIN reqs :
          ( /\ C12_Validated(p) /\ reqs[p].pc \in {"log", "logValid"}
            /\ reqs'[p] # reqs[p] )
          => Len(verificationLogs') = Len(verificationLogs) + 1

C12_Log ==
    /\ Len(verificationLogs)
          = Cardinality({p \in DOMAIN reqs :
                            C12_Validated(p) /\ reqs[p].pc \in {"reread", "done"}})
    /\ \A p \in DOMAIN reqs :
          C12_Validated(p) /\ Answered(p) =>
              /\ reqs[p].res.valid
                 \/ reqs[p].res.message \in FailureMessages
              /\ \E i \in 1 .. Len(verificationLogs) :
                    /\ C12_Carries(verificationLogs[i], p)
                    /\ verificationLogs[i].reason = C12_ReasonOf(reqs[p].res)
                    /\ verificationLogs[i].success = reqs[p].res.valid

C13_LastCheckedOnEveryBranch ==
    \A p \in DOMAIN reqs :
        ( /\ IsVerify(p) /\ Answered(p) /\ reqs[p].license # Null
          /\ licenses[reqs[p].licenseKey] # Null )
        => licenses[reqs[p].licenseKey].lastChecked >= reqs[p].logEntry.timestamp

\* C14: a verification whose body lacks the licenseKey or the
\* discordServerId, or carries an empty one, is answered with the 400 of a
\* validation error in the step of its arrival: that step reads no license
\* (the request holds none), changes none and leaves the log as it is; and no
\* such body gets past validation: every request that goes on has both.
C14_Malformed(body) ==
    \/ "licenseKey" \notin DOMAIN body
    \/ "discordServerId" \notin DOMAIN body
    \/ body.licenseKey = ""
    \/ body.discordServerId = ""

C14_Step ==
    \A p \in DOMAIN reqs :
        ( /\ reqs[p].pc = "idle" /\ reqs'[p].kind = "verify"
          /\ reqs'[p].body # Null )
        => /\ licenses' = licenses
           /\ verificationLogs' = verificationLogs
           /\ reqs'[p].pc = "done"

C14_Answer ==
    \A p \in DOMAIN reqs :
        IsVerify(p) =>
            IF reqs[p].body # Null
            THEN /\ C14_Malformed(reqs[p].body)
                 /\ Answered(p)
                 /\ reqs[p].res.status = 400 /\ ~reqs[p].res.valid
                 /\ reqs[p].res.message = "Invalid request format"
                 /\ reqs[p].license = Null /\ reqs[p].logEntry = Null
                 /\ reqs[p].updatedLicense = Null
            ELSE /\ reqs[p].licenseKey # "" /\ reqs[p].discordServerId # ""
                 /\ reqs[p].res.status # 400

C14_ValidationBeforeStore == [][C14_Step]_vars /\ []C14_Answer

\* C14 witness: a body with an empty discordServerId and one without a
\* licenseKey have both been answered 400, and the log is empty.
C14_Witness ==
    \E p, q \in DOMAIN reqs :
        /\ IsVerify(p) /\ Answered(p) /\ reqs[p].body # Null
        /\ "discordServerId" \in DOMAIN reqs[p].body
        /\ reqs[p].body.discordServerId = ""
        /\ reqs[p].res.status = 400
        /\ IsVerify(q) /\ Answered(q) /\ reqs[q].body # Null
        /\ "licenseKey" \notin DOMAIN reqs[q].body
        /\ reqs[q].res.status = 400
        /\ verificationLogs = <<>>

\* C15: an update changes the fields and sub-fields that its body names, and
\* no other: every field of the license that the body does not name keeps its
\* value in the step that applies the update, every named one takes the
\* body's, and no other license changes.  So a body of status alone leaves
\* activation, validity, metadata, security and lastChecked as they were, and
\* a body of activation.maxGuilds alone leaves allowedGuilds as it was.
C15_Names(body, top, sub) == top \in DOMAIN body /\ sub \in DOMAIN body[top]

C15_SubFields ==
    {<<"validity", "lifetime">>, <<"validity", "expiresAt">>,
     <<"activation", "maxGuilds">>, <<"activation", "activatedGuilds">>,
     <<"activation", "allowedGuilds">>,
     <<"metadata", "notes">>, <<"metadata", "reseller">>,
     <<"security", "readOnly">>, <<"security", "checksum">>}

C15_Step ==
    \A p \in DOMAIN reqs :
        ( /\ reqs[p].kind = "put" /\ reqs[p].pc = "update" /\ reqs'[p] # reqs[p]
          /\ licenses[reqs[p].licenseKey] # Null )
        => LET k == reqs[p].licenseKey
               body == reqs[p].body
               old == licenses[k]
               new == licenses'[k]
           IN /\ \A other \in Keys \ {k} : licenses'[other] = licenses[other]
              /\ new # Null /\ new.licenseKey = old.licenseKey
              /\ "status" \notin DOMAIN body => new.status = old.status
              /\ "lastChecked" \notin DOMAIN body => new.lastChecked = old.lastChecked
              /\ \A f \in C15_SubFields :
                    IF C15_Names(body, f[1], f[2])
                    THEN \/ new[f[1]][f[2]] = body[f[1]][f[2]]
                         \/ /\ f[2] = "expiresAt" /\ body[f[1]][f[2]] = EmptyString
                            /\ new[f[1]][f[2]] = NullDate
                    ELSE new[f[1]][f[2]] = old[f[1]][f[2]]
              /\ "status" \in DOMAIN body => new.status = body.status
              /\ DOMAIN body = {"status"}
                    => new = [old EXCEPT !.status = body.status]
              /\ ( /\ DOMAIN body = {"activation"}
                   /\ DOMAIN body.activation = {"maxGuilds"} )
                 => new = [old EXCEPT !.activation.maxGuilds = body.activation.maxGuilds]
              /\ reqs'[p].res.status = 200 /\ reqs'[p].res.data = new

C15_PartialUpdateFrame == [][C15_Step]_vars

\* C15 witness: a license that holds two guilds and expires at 1 got an update
\* of status alone and one of maxGuilds alone: both are answered 200, and the
\* license still holds its two guilds and its expiry.
C15_Witness ==
    \E p, q \in DOMAIN reqs :
        /\ reqs[p].kind = "put" /\ Answered(p) /\ reqs[p].res.status = 200
        /\ reqs[p].body = [status |-> "inactive"]
        /\ reqs[q].kind = "put" /\ Answered(q) /\ reqs[q].res.status = 200
        /\ reqs[q].body = [activation |-> [maxGuilds |-> 1]]
        /\ licenses["K1"].status = "inactive"
        /\ licenses["K1"].activation.maxGuilds = 1
        /\ Len(Members("K1")) = 2
        /\ licenses["K1"].validity = FixedExpiry

\* C16: a creation whose key has a license already is answered with the
\* duplicate-key 409 and leaves every license as it was, allowedGuilds
\* included; a creation whose key has none inserts its license and is answered
\* 201; every license is stored under its own key, one per key; and of two
\* creations of one key, both answered, at most one got 201, and exactly one
\* when the key had no license before them.
C16_Inserting(p) == reqs[p].kind = "create" /\ reqs[p].pc = "insert"

C16_Step ==
    \A p \in DOMAIN reqs :
        C16_Inserting(p) /\ reqs'[p] # reqs[p] =>
            IF licenses[reqs[p].licenseKey] # Null
            THEN /\ licenses' = licenses
                 /\ reqs'[p].res.status = 409
                 /\ reqs'[p].res.message = "License key already exists"
            ELSE /\ licenses'[reqs[p].licenseKey] = reqs[p].newLicense
                 /\ \A k \in Keys \ {reqs[p].licenseKey} : licenses'[k] = licenses[k]
                 /\ reqs'[p].res.status = 201

C16_Created(p) ==
    reqs[p].kind = "create" /\ Answered(p) /\ reqs[p].res.status \in {201, 409}

C16_Answer ==
    /\ \A k \in Keys : licenses[k] # Null => licenses[k].licenseKey = k
    /\ \A p, q \in DOMAIN reqs :
          ( /\ p # q /\ C16_Created(p) /\ C16_Created(q)
            /\ reqs[p].licenseKey = reqs[q].licenseKey )
          => /\ ~(reqs[p].res.status = 201 /\ reqs[q].res.status = 201)
             /\ reqs[p].licenseKey = "K2"
                   => reqs[p].res.status = 201 \/ reqs[q].res.status = 201
             /\ reqs[p].licenseKey = "K1"
                   => reqs[p].res.status = 409 /\ reqs[q].res.status = 409

C16_DuplicateKey == [][C16_Step]_vars /\ []C16_Answer

\* C16 witness: two creations of the key K2 with different bodies are
\* answered, one 201 and one 409, and the license of K2 is that of the first.
C16_Witness ==
    \E p, q \in DOMAIN reqs :
        /\ C16_Created(p) /\ C16_Created(q)
        /\ reqs[p].licenseKey = "K2" /\ reqs[q].licenseKey = "K2"
        /\ reqs[p].newLicense # reqs[q].newLicense
        /\ reqs[p].res.status = 201 /\ reqs[q].res.status = 409
        /\ licenses["K2"] = reqs[p].newLicense

\* C17: a verification during which a store operation failed is answered
\* with an infrastructure error that carries no verdict: its response has the
\* status 500 and no "valid" in its body, neither true nor false.
C17_NoVerdictOnStoreFailure ==
    \A p \in DOMAIN reqs :
        IsVerify(p) /\ Answered(p) /\ reqs[p].error = "Store unavailable"
           => /\ reqs[p].res.status = 500
              /\ ~reqs[p].res.hasValid

\* C18: a verification whose log entry could not be appended goes on as one
\* whose entry was: the step that logs changes no license and leaves the
\* request with the answer of its branch (not found, inactive, expired,
\* maximum guilds) or on its way to the final read, whether the log grew in
\* that step or not; and a verification that no store error ended is answered
\* 200, valid exactly when its add was accepted.
C18_Message(reason) ==
    IF reason = "Maximum guilds reached" THEN MaxGuildsMessage ELSE reason

C18_Step ==
    \A p \in DOMAIN reqs :
        ( /\ IsVerify(p) /\ reqs[p].pc \in {"log", "logValid"}
          /\ reqs'[p] # reqs[p] )
        => /\ licenses' = licenses
           /\ reqs'[p].updatedLicense = reqs[p].updatedLicense
           /\ reqs'[p].error = ""
           /\ reqs[p].pc = "log"
                 => /\ reqs'[p].pc = "done"
                    /\ reqs'[p].res.status = 200 /\ ~reqs'[p].res.valid
                    /\ reqs'[p].res.message = C18_Message(reqs[p].logEntry.reason)
           /\ reqs[p].pc = "logValid"
                 => reqs'[p].pc = "reread" /\ reqs'[p].res = reqs[p].res

C18_Answer ==
    \A p \in DOMAIN reqs :
        IsVerify(p) /\ Answered(p) /\ reqs[p].error = ""
           => /\ reqs[p].res.status = 200
              /\ reqs[p].res.valid <=> reqs[p].updatedLicense # Null
              /\ reqs[p].res.valid
                    => Includes(reqs[p].res.data.activation.allowedGuilds,
                                reqs[p].discordServerId)

C18_LogFailureDoesNotFail == [][C18_Step]_vars /\ []C18_Answer

\* C18 witness: two verifications are answered, one valid and one maximum
\* guilds, no store error was caught, and the log is empty: neither entry was
\* appended.  The guild of the valid one is activated and lastChecked is set.
C18_Witness ==
    \E p, q \in DOMAIN reqs :
        /\ IsVerify(p) /\ Answered(p) /\ reqs[p].error = "" /\ reqs[p].res.valid
        /\ IsVerify(q) /\ Answered(q) /\ reqs[q].error = ""
        /\ reqs[q].res.message = MaxGuildsMessage
        /\ verificationLogs = <<>>
        /\ Includes(Members(reqs[p].licenseKey), reqs[p].discordServerId)
        /\ reqs[p].updatePayload > 0
        /\ licenses[reqs[p].licenseKey].lastChecked = reqs[p].updatePayload

\* C19: the answer of a log query holds at most as many entries as the limit
\* of the request, for every limit it gives, and at most 100 when it gives
\* none; its entries are in descending order of timestamp; with a licenseKey
\* they are entries of that license only; and they are entries of the log.
C19_BoundedLogQuery ==
    \A p \in DOMAIN reqs :
        reqs[p].kind = "logs" /\ Answered(p) =>
            LET query == reqs[p].body
                logs == reqs[p].res.data.logs
                limit == IF "limit" \in DOMAIN query /\ query.limit # ""
                         THEN ParseInt(query.limit) ELSE 100
            IN /\ Len(logs) <= limit
               /\ reqs[p].res.data.count = Len(logs)
               /\ \A i, j \in 1 .. Len(logs) :
                     i < j => logs[i].timestamp >= logs[j].timestamp
               /\ "licenseKey" \in DOMAIN query
                     => \A i \in 1 .. Len(logs) : logs[i].licenseKey = query.licenseKey
               /\ \A i \in 1 .. Len(logs) :
                     \E j \in 1 .. Len(verificationLogs) : verificationLogs[j] = logs[i]


\* the request p went through limiter and apiKeyMiddleware
C20_Gated(p) == reqs[p].headers # Null

\* the request p was answered by limiter or apiKeyMiddleware
C20_Rejected(p) == C20_Gated(p) /\ reqs[p].res.status \in {401, 403, 429}

\* a request that limiter or apiKeyMiddleware answers is answered in the step
\* of its arrival, which leaves the collection and the log as they were, and
\* it takes no step afterwards
C20_Step ==
    \A p \in DOMAIN reqs :
        /\ reqs'[p].headers # Null /\ reqs'[p].res.status \in {401, 403, 429}
           /\ ~C20_Rejected(p)
              => /\ reqs[p] = IdleReq
                 /\ licenses' = licenses
                 /\ verificationLogs' = verificationLogs
        /\ C20_Rejected(p) => reqs'[p] = reqs[p]

\* what the request p holds when it was rejected: no license read, no log
\* entry made, no update
C20_NothingRead(p) ==
    /\ reqs[p].pc = "done"
    /\ reqs[p].license = Null /\ reqs[p].logEntry = Null
    /\ reqs[p].updatedLicense = Null /\ reqs[p].newLicense = Null
    /\ reqs[p].res.valid = FALSE /\ reqs[p].res.data = Null

\* C20 as the specification states it: a request to a route other than
\* /api/health that carries no API key is answered 401 and one that carries a
\* key other than API_KEY is answered 403, and neither reads a license nor
\* makes a log entry.  The key a request carries is the X-API-Key header or,
\* without one, the Authorization header with "Bearer " taken out.
C20_KeyGateAlways ==
    \A p \in DOMAIN reqs :
        C20_Gated(p) /\ reqs[p].kind \in Endpoints =>
            LET key == ApiKeyOf(reqs[p].headers)
            IN /\ key = <<>> => reqs[p].res.status = 401 /\ C20_NothingRead(p)
               /\ key # <<>> /\ key # ApiKey
                     => reqs[p].res.status = 403 /\ C20_NothingRead(p)

\* the answers of the requests that went through limiter and apiKeyMiddleware
C20_Answer ==
    \A p \in DOMAIN reqs :
        C20_Gated(p) /\ reqs[p].kind \in Endpoints =>
            LET key == ApiKeyOf(reqs[p].headers)
            IN /\ reqs[p].rateLimited => reqs[p].res.status = 429
               /\ ~reqs[p].rateLimited /\ key = <<>> => reqs[p].res.status = 401
               /\ ~reqs[p].rateLimited /\ key # <<>> /\ key # ApiKey
                     => reqs[p].res.status = 403
               /\ ~reqs[p].rateLimited /\ key = ApiKey
                     => reqs[p].res.status \notin {401, 403, 429}
               /\ C20_Rejected(p) => C20_NothingRead(p)

\* C20, amended: a request to a route other than /api/health that the rate
\* limiter lets through is answered 401 when it carries no API key and 403 when
\* it carries a key other than API_KEY; a request over the rate limit is
\* answered 429 whatever it carries.  In the three cases the request is
\* answered on arrival: no license is read or changed and no log entry is
\* appended.  A request with the key API_KEY within the rate limit gets none
\* of the three answers.
C20_KeyGate == [][C20_Step]_vars /\ []C20_Answer

\* C20 witness: within the rate limit, a request without a key was answered
\* 401 and then a request with a wrong key was answered 403; the collection
\* is the initial one and the log is empty.
C20_Witness ==
    \E p, q \in DOMAIN reqs :
        /\ C20_Rejected(p) /\ ~reqs[p].rateLimited
        /\ DOMAIN reqs[p].headers = {} /\ reqs[p].res.status = 401
        /\ C20_Rejected(q) /\ ~reqs[q].rateLimited
        /\ ApiKeyOf(reqs[q].headers) = <<"x">> /\ reqs[q].res.status = 403
        /\ reqs[p].kind = "verify" /\ reqs[q].kind = "delete"
        /\ licenses["K1"] # Null /\ verificationLogs = <<>>

\* a request without a key, over the rate limit, is answered 429
C20_RateLimitedFirst ==
    \E p \in DOMAIN reqs :
        /\ C20_Gated(p) /\ reqs[p].rateLimited
        /\ ApiKeyOf(reqs[p].headers) = <<>> /\ reqs[p].res.status = 429



\* C21: when addActiveGuild of a verification is applied to a license whose
\* status is inactive at that moment (an update may have set it after the
\* verification loaded the license), the guild is not added and the
\* verification goes on to a failing answer, not to valid=true.
C21_NoStaleStatus ==
    [][\A p \in DOMAIN reqs :
          /\ IsVerify(p) /\ reqs[p].pc = "add" /\ reqs'[p].pc # "add"
          /\ licenses[reqs[p].licenseKey] # Null
          /\ licenses[reqs[p].licenseKey].status = "inactive"
          => /\ licenses' = licenses
             /\ reqs'[p].pc = "log"]_vars



\* C22: in every reachable state, every license has maxGuilds at least the
\* number of guilds in its allowedGuilds, whatever creations, updates,
\* verifications, deactivations and deletions have run.
C22_MaxGuildsBoundsMembers ==
    \A k \in Keys :
        licenses[k] # Null =>
            licenses[k].activation.maxGuilds >= Len(licenses[k].activation.allowedGuilds)

\* the guild ids
C23_AllGuilds == {GuildIds[i] : i \in 1 .. Len(GuildIds)}

\* C23: in every step, a guild enters the allowedGuilds of a license only in
\* the addActiveGuild step of a verification of that guild that goes on to the
\* valid answer, and leaves it only in the removeActiveGuild step of a
\* deactivation of that guild; no other step adds or removes a member.
C23_MembersChangeOnlyByVerifyAndDeactivate ==
    [][\A k \in Keys, g \in C23_AllGuilds :
          licenses[k] # Null /\ licenses'[k] # Null =>
             /\ ~Includes(licenses[k].activation.allowedGuilds, g)
                /\ Includes(licenses'[k].activation.allowedGuilds, g)
                => \E p \in DOMAIN reqs :
                      /\ IsVerify(p) /\ reqs[p].pc = "add" /\ reqs'[p].pc = "stamp"
                      /\ reqs[p].licenseKey = k /\ reqs[p].discordServerId = g
             /\ Includes(licenses[k].activation.allowedGuilds, g)
                /\ ~Includes(licenses'[k].activation.allowedGuilds, g)
                => \E p \in DOMAIN reqs :
                      /\ IsDeactivate(p) /\ reqs[p].pc = "remove"
                      /\ reqs'[p].pc = "done"
                      /\ reqs[p].licenseKey = k /\ reqs[p].discordServerId = g]_vars

\* C24: a deactivation answers "Guild deactivated successfully" only if, when
\* its removeActiveGuild was applied, the license existed and held the guild:
\* so that of two concurrent deactivations of a guild at most one reports the
\* removal, and a deactivation whose license was deleted meanwhile does not.
C24_SuccessMeansRemoved ==
    [][\A p \in DOMAIN reqs :
          /\ IsDeactivate(p) /\ reqs[p].pc = "remove" /\ reqs'[p].pc = "done"
          /\ reqs'[p].res.message = "Guild deactivated successfully"
          => /\ licenses[reqs[p].licenseKey] # Null
             /\ Includes(licenses[reqs[p].licenseKey].activation.allowedGuilds,
                         reqs[p].discordServerId)]_vars

\* C25: a verification whose license does not exist when its addActiveGuild
\* is applied takes the not-found reason, and answers "License not found",
\* not the maximum-guilds verdict.
C25_MissingIsNotFull ==
    [][\A p \in DOMAIN reqs :
          /\ IsVerify(p) /\ reqs[p].pc = "add" /\ reqs'[p].pc # "add"
          /\ licenses[reqs[p].licenseKey] = Null
          => /\ reqs'[p].logEntry.reason = "License not found"
             /\ reqs'[p].pc = "log"]_vars

\* C26: a maximum-guilds answer reports an activeGuilds that is not smaller
\* than the maxGuilds it reports.
C26_ReportedCountAtCapacity ==
    \A p \in DOMAIN reqs :
        IsVerify(p) /\ Answered(p) /\ reqs[p].res.message = MaxGuildsMessage =>
            reqs[p].res.data.activeGuilds >= reqs[p].res.data.maxGuilds

\* the message of a verification that added its guild
C27_Activated == "License is valid (guild activated)"

\* a valid answer says "guild already active" exactly when the guild was in
\* allowedGuilds at the moment addActiveGuild was applied
C27_Step ==
    \A p \in DOMAIN reqs :
        IsVerify(p) /\ reqs[p].pc = "add" /\ reqs'[p].pc = "stamp" =>
            (ValidResponse(reqs'[p].isGuildActive,
                           licenses'[reqs[p].licenseKey]).message = C27_Activated)
               <=> ~Includes(licenses[reqs[p].licenseKey].activation.allowedGuilds,
                             reqs[p].discordServerId)

\* of two verifications of one guild that were in flight together, with no
\* other request, at most one reports the guild as newly activated
C27_OneActivation ==
    \A p, q \in DOMAIN reqs :
        /\ p # q /\ DOMAIN reqs = {p, q}
        /\ IsVerify(p) /\ Answered(p) /\ IsVerify(q) /\ Answered(q)
        /\ reqs[p].licenseKey = reqs[q].licenseKey
        /\ reqs[p].discordServerId = reqs[q].discordServerId
        => ~(reqs[p].res.message = C27_Activated /\ reqs[q].res.message = C27_Activated)

\* C27: a valid verdict reports "guild activated" exactly when its own
\* addActiveGuild inserted the guild, and "guild already active" exactly when
\* the guild was a member when addActiveGuild was applied; of concurrent
\* verifications of one new guild exactly one reports it as newly activated.
C27_MessageMatchesMutation == [][C27_Step]_vars /\ []C27_OneActivation



\* the guilds other than g are members of the license k after the step
\* exactly if they were before it
C28_OthersUntouched(k, g) ==
    \A h \in C23_AllGuilds \ {g} :
        Includes(licenses'[k].activation.allowedGuilds, h)
           <=> Includes(licenses[k].activation.allowedGuilds, h)

\* the request p applies its store mutation in this step
C28_Adds(p) == IsVerify(p) /\ reqs[p].pc = "add" /\ reqs'[p].pc # "add"
C28_Removes(p) == IsDeactivate(p) /\ reqs[p].pc = "remove" /\ reqs'[p].pc # "remove"

\* an add that lands leaves its guild a member, a remove leaves its guild no
\* member, each leaves the other members as they were, a rejected add and
\* every other step leave the license's members as they were
C28_Step ==
    /\ \A p \in DOMAIN reqs :
          LET k == reqs[p].licenseKey
              g == reqs[p].discordServerId
          IN /\ C28_Adds(p) /\ reqs'[p].pc = "stamp"
                => /\ Includes(licenses'[k].activation.allowedGuilds, g)
                   /\ C28_OthersUntouched(k, g)
             /\ C28_Adds(p) /\ reqs'[p].pc # "stamp" => licenses' = licenses
             /\ C28_Removes(p) /\ licenses[k] # Null
                => /\ ~Includes(licenses'[k].activation.allowedGuilds, g)
                   /\ C28_OthersUntouched(k, g)
    /\ (\A p \in DOMAIN reqs : ~C28_Adds(p) /\ ~C28_Removes(p))
          => \A k \in Keys :
                licenses[k] # Null /\ licenses'[k] # Null
                   => licenses'[k].activation.allowedGuilds
                         = licenses[k].activation.allowedGuilds

\* allowedGuilds holds at most maxGuilds guilds
C28_Bound ==
    \A k \in Keys :
        licenses[k] # Null =>
            Len(licenses[k].activation.allowedGuilds)
               <= licenses[k].activation.maxGuilds

\* C28: for a verification and a deactivation of one guild on one license in
\* flight together, every interleaving keeps allowedGuilds within maxGuilds
\* and leaves the other members untouched, and the guild's membership is that
\* of the store mutation applied last: present after an add that landed,
\* absent after a remove, and unchanged by every step in between and after.
C28_LastMutationWins == [][C28_Step]_vars /\ []C28_Bound

\* C28 witness: guild A was a member; the verification of A loaded the
\* license while A was a member (it answers "already active"), the
\* deactivation of A removed it (the license it answers with holds no A), and
\* A is a member in the end: the add landed after the remove.
C28_Witness ==
    \E p, q \in DOMAIN reqs :
        /\ IsVerify(p) /\ Answered(p) /\ reqs[p].res.valid
        /\ reqs[p].isGuildActive
        /\ IsDeactivate(q) /\ Answered(q) /\ reqs[q].res.status = 200
        /\ reqs[q].licenseKey = reqs[p].licenseKey
        /\ reqs[q].discordServerId = reqs[p].discordServerId
        /\ ~Includes(reqs[q].res.data.activation.allowedGuilds, reqs[p].discordServerId)
        /\ Includes(Members(reqs[p].licenseKey), reqs[p].discordServerId)
        /\ Len(Members(reqs[p].licenseKey)) = 2



\* C29: the verification log is append-only: in every step the log after the
\* step begins with the log before it, entry for entry; no verification,
\* deactivation, update, creation or deletion of a license changes or removes
\* an entry.
C29_LogAppendOnly ==
    [][/\ Len(verificationLogs') >= Len(verificationLogs)
       /\ SubSeq(verificationLogs', 1, Len(verificationLogs)) = verificationLogs]_vars

\* C29 witness: a verification of the license K1 was answered valid and its
\* entry is in the log; the license was deleted afterwards, and the entry is
\* still there.
C29_Witness ==
    \E p, q \in DOMAIN reqs :
        /\ IsVerify(p) /\ Answered(p) /\ reqs[p].res.valid
        /\ reqs[q].kind = "delete" /\ Answered(q) /\ reqs[q].res.status = 200
        /\ reqs[q].licenseKey = reqs[p].licenseKey
        /\ licenses[reqs[p].licenseKey] = Null
        /\ verificationLogs = <<reqs[p].logEntry>>
        /\ reqs[p].logEntry.success



\* the store failed while it looked up the license of the request p
C30_LoadFailed(p) == reqs[p].error = "Store unavailable"

\* the not-found outcome of a request: "License not found", with the 404 of
\* the get, update, deactivate and delete routes
C30_NotFound(res) == res.message = "License not found" \/ res.status = 404

\* the step in which the lookup of a request fails appends nothing to the
\* log, and the request takes no step after it
C30_Step ==
    \A p \in DOMAIN reqs :
        /\ ~C30_LoadFailed(p) /\ reqs'[p].error = "Store unavailable"
              => verificationLogs' = verificationLogs
        /\ C30_LoadFailed(p) => reqs'[p] = reqs[p]

\* a request whose lookup failed is answered 500 "Internal server error",
\* which is not the not-found outcome, and has made no log entry
C30_Answer ==
    \A p \in DOMAIN reqs :
        C30_LoadFailed(p) =>
            /\ reqs[p].kind \in {"verify", "get", "put", "deactivate", "delete"}
            /\ Answered(p)
            /\ reqs[p].res.status = 500
            /\ reqs[p].res.message = "Internal server error"
            /\ ~C30_NotFound(reqs[p].res)
            /\ reqs[p].logEntry = Null

\* C30: a failure of the store while it looks up a license is not reported as
\* license-not-found: the verification, get, update, deactivate and delete
\* handlers answer 500 "Internal server error", which differs from their
\* not-found answer, and no log entry is written for the request.
C30_StoreFailureIsNotNotFound == [][C30_Step]_vars /\ []C30_Answer

\* C30 witness: the lookup of a verification failed and was answered 500; a
\* verification of the missing key K2 was answered "License not found" and
\* logged; the log holds that one entry only.
C30_Witness ==
    \E p, q \in DOMAIN reqs :
        /\ IsVerify(p) /\ C30_LoadFailed(p) /\ reqs[p].res.status = 500
        /\ IsVerify(q) /\ ~C30_LoadFailed(q) /\ Answered(q)
        /\ reqs[q].licenseKey = "K2"
        /\ reqs[q].res.message = "License not found"
        /\ reqs[q].res # reqs[p].res
        /\ verificationLogs = <<reqs[q].logEntry>>



\* the request p takes the step
C31_Steps(p) == reqs'[p] # reqs[p]

\* a step of a request addressed to a license leaves every other license as
\* it was
C31_Frame ==
    \A p \in DOMAIN reqs :
        C31_Steps(p) /\ reqs'[p].kind \in {"verify", "deactivate", "put", "delete"}
        => \A k \in Keys \ {reqs'[p].licenseKey} : licenses'[k] = licenses[k]

\* each decision of a verification is taken on the record of its own license
\* alone: the load reads it, the checks run on what was loaded, and the add is
\* accepted exactly when the record exists and holds the guild or has room
C31_Verdict ==
    \A p \in DOMAIN reqs :
        LET k == reqs'[p].licenseKey
            g == reqs'[p].discordServerId
        IN /\ reqs[p].pc = "idle" /\ reqs'[p].kind = "verify"
              => reqs'[p].license = licenses[k]
           /\ IsVerify(p) /\ reqs[p].pc = "check" /\ C31_Steps(p)
              => (reqs'[p].pc = "add"
                    <=> FailedCheck(reqs[p].license, now) = "")
           /\ IsVerify(p) /\ reqs[p].pc = "add" /\ C31_Steps(p)
              => (reqs'[p].pc = "stamp"
                    <=> /\ licenses[k] # Null
                        /\ \/ Includes(licenses[k].activation.allowedGuilds, g)
                           \/ Len(licenses[k].activation.allowedGuilds)
                                 < licenses[k].activation.maxGuilds)

\* every license document a request holds or answers with is of its own key
C31_OwnDocuments ==
    \A p \in DOMAIN reqs :
        /\ reqs[p].license # Null => reqs[p].license.licenseKey = reqs[p].licenseKey
        /\ reqs[p].updatedLicense # Null
              => reqs[p].updatedLicense.licenseKey = reqs[p].licenseKey
        /\ IsVerify(p) /\ reqs[p].res.valid
              => reqs[p].res.data.licenseKey = reqs[p].licenseKey

\* C31: operations are isolated per license: a verification, deactivation,
\* update or deletion addressed to one license leaves every field of every
\* other license unchanged, and the verdict of a verification is decided on
\* the record of its own license alone, under any interleaving.
C31_PerLicenseIsolation == [][C31_Frame /\ C31_Verdict]_vars /\ []C31_OwnDocuments

\* C31 witness: an update has set the license K2 inactive and a verification
\* of K1 was answered valid; K2 holds the guilds it held and K1 is active.
C31_Witness ==
    \E p, q \in DOMAIN reqs :
        /\ IsVerify(p) /\ Answered(p) /\ reqs[p].res.valid
        /\ reqs[p].licenseKey = "K1"
        /\ reqs[q].kind = "put" /\ Answered(q) /\ reqs[q].licenseKey = "K2"
        /\ reqs[q].res.status = 200
        /\ licenses["K2"].status = "inactive"
        /\ licenses["K1"].status = "active"
        /\ Includes(Members("K1"), reqs[p].discordServerId)
        /\ ~Includes(Members("K2"), reqs[p].discordServerId)



\* C32: a verification of a license loaded active, with a fixed expiry equal
\* to the clock value the handler reads, is answered "License has expired"
\* and adds no guild.
C32_ExpiredAtTheBoundary ==
    \A p \in DOMAIN reqs :
        ( /\ IsVerify(p) /\ Answered(p) /\ reqs[p].license # Null
          /\ reqs[p].license.status = "active"
          /\ ~reqs[p].license.validity.lifetime
          /\ reqs[p].license.validity.expiresAt = reqs[p].logEntry.timestamp )
        => /\ reqs[p].res.message = "License has expired"
           /\ reqs[p].updatedLicense = Null



\* a step of a verification changes, of the license it is addressed to, only
\* allowedGuilds, by appending at most its own guild, and lastChecked: every
\* other field keeps the value the store holds at that moment, which is the
\* value of the latest update and not one the verification read earlier
C33_Step ==
    \A p \in DOMAIN reqs :
        LET k == reqs[p].licenseKey
            g == reqs[p].discordServerId
        IN IsVerify(p) /\ reqs'[p] # reqs[p]
           /\ licenses[k] # Null /\ licenses'[k] # Null
           => /\ licenses'[k] =
                    [licenses[k] EXCEPT
                        !.activation.allowedGuilds =
                            licenses'[k].activation.allowedGuilds,
                        !.lastChecked = licenses'[k].lastChecked]
              /\ licenses'[k].activation.allowedGuilds
                    \in {licenses[k].activation.allowedGuilds,
                         Append(licenses[k].activation.allowedGuilds, g)}
              /\ licenses'[k].lastChecked # licenses[k].lastChecked
                    => reqs[p].pc = "touch"

\* C33: a successful verification changes only allowedGuilds (by adding at
\* most the requesting guild) and lastChecked of the license; status,
\* validity, maxGuilds, activatedGuilds, product, owner, metadata and security
\* keep their values, and a field that a concurrent update changed is not
\* overwritten with a value the verification read earlier.
C33_VerificationFrame == [][C33_Step]_vars

\* C33 witness: a verification loaded the license active, an update then set
\* its status to inactive (the license the update answers with does not hold
\* the guild yet), the verification added its guild and was answered valid,
\* and the license is still inactive.
C33_Witness ==
    \E p, q \in DOMAIN reqs :
        /\ IsVerify(p) /\ Answered(p) /\ reqs[p].res.valid
        /\ reqs[p].license.status = "active" /\ ~reqs[p].isGuildActive
        /\ reqs[q].kind = "put" /\ Answered(q) /\ reqs[q].res.status = 200
        /\ reqs[q].licenseKey = reqs[p].licenseKey
        /\ reqs[q].body = "status" :> "inactive"
        /\ ~Includes(reqs[q].res.data.activation.allowedGuilds,
                     reqs[p].discordServerId)
        /\ licenses[reqs[p].licenseKey] # Null
        /\ licenses[reqs[p].licenseKey].status = "inactive"
        /\ Includes(Members(reqs[p].licenseKey), reqs[p].discordServerId)



\* C34: whenever a verification is answered valid=true, the license in the
\* response lists the requesting guild in activation.allowedGuilds, with at
\* most maxGuilds members, under any interleaving with the other requests on
\* the license.
C34_SnapshotListsGuild ==
    \A p \in DOMAIN reqs :
        IsVerify(p) /\ Answered(p) /\ reqs[p].res.valid
        => /\ Includes(reqs[p].res.data.activation.allowedGuilds,
                       reqs[p].discordServerId)
           /\ Len(reqs[p].res.data.activation.allowedGuilds)
                 <= reqs[p].res.data.activation.maxGuilds



\* C35: a verification answered 500 has not consumed a slot: with no other
\* request on the way, allowedGuilds of the license is what the verification
\* loaded when it began.
C35_ErrorConsumesNoSlot ==
    \A p \in DOMAIN reqs :
        ( /\ IsVerify(p) /\ Answered(p) /\ reqs[p].res.status = 500
          /\ \A q \in DOMAIN reqs \ {p} : reqs[q].pc = "idle"
          /\ reqs[p].license # Null
          /\ licenses[reqs[p].licenseKey] # Null )
        => Members(reqs[p].licenseKey) = reqs[p].license.activation.allowedGuilds



\* C36: the success flag of the log entry of a verification equals the valid
\* flag of its response: an answered verification whose entry says success
\* was answered valid=true, and one answered valid=true has appended an
\* entry with success=true and the reason "Valid license".
C36_LogMatchesResponse ==
    \A p \in DOMAIN reqs :
        IsVerify(p) /\ Answered(p) /\ reqs[p].logEntry # Null
        => /\ reqs[p].logEntry.success = reqs[p].res.valid
           /\ reqs[p].res.valid
                 => /\ reqs[p].logEntry.reason = "Valid license"
                    /\ \E i \in 1 .. Len(verificationLogs) :
                          verificationLogs[i] = reqs[p].logEntry



\* C37: the expiry check applies only to a license with lifetime false and an
\* expiry date: an active license with lifetime true is never answered
\* expired, even with an expiry date in the past, nor is one with lifetime
\* false and no expiry date; every other active license is answered expired
\* exactly when its expiry date is before the clock value the handler read.
C37_ExpiryApplies ==
    \A p \in DOMAIN reqs :
        ( /\ IsVerify(p) /\ Answered(p) /\ reqs[p].license # Null
          /\ reqs[p].license.status = "active" )
        => LET v == reqs[p].license.validity
               t == reqs[p].logEntry.timestamp
               expired == reqs[p].res.message = "License has expired"
           IN /\ v.lifetime => ~expired
              /\ v.expiresAt = NullDate => ~expired
              /\ ~v.lifetime /\ v.expiresAt # NullDate
                    => (expired <=> v.expiresAt < t)
              /\ expired => ~reqs[p].res.valid /\ reqs[p].logEntry.reason = "License has expired"
              /\ ~expired => reqs[p].res.valid \/ reqs[p].res.message = MaxGuildsMessage

\* C37 witness: with the clock at 2, a license with lifetime true and the
\* expiry date 1 and a license with lifetime false and no expiry date have
\* both been verified valid.
C37_Witness ==
    \E p, q \in DOMAIN reqs :
        /\ IsVerify(p) /\ Answered(p) /\ reqs[p].license # Null
        /\ reqs[p].license.validity = LifetimeWithDate
        /\ reqs[p].logEntry.timestamp = 2 /\ reqs[p].res.valid
        /\ IsVerify(q) /\ Answered(q) /\ reqs[q].license # Null
        /\ reqs[q].license.validity = OpenEnded
        /\ reqs[q].logEntry.timestamp = 2 /\ reqs[q].res.valid



\* the license of key k holds more guilds than its maxGuilds
C38_Over(k) ==
    licenses[k] # Null /\ Len(Members(k)) > licenses[k].activation.maxGuilds

\* no step of a verification changes allowedGuilds of a license that is at or
\* over its maximum; the add of a verification on a license over its maximum
\* is accepted when the guild is a member and refused when it is not
C38_Step ==
    \A p \in DOMAIN reqs :
        LET k == reqs[p].licenseKey
            g == reqs[p].discordServerId
        IN /\ ( /\ IsVerify(p) /\ reqs'[p] # reqs[p] /\ licenses[k] # Null
                /\ Len(Members(k)) >= licenses[k].activation.maxGuilds )
              => /\ licenses'[k] # Null
                 /\ licenses'[k].activation.allowedGuilds = Members(k)
           /\ ( /\ IsVerify(p) /\ reqs[p].pc = "add" /\ reqs'[p] # reqs[p]
                /\ C38_Over(k) )
              => IF Includes(Members(k), g)
                 THEN reqs'[p].updatedLicense # Null /\ reqs'[p].pc = "stamp"
                 ELSE /\ reqs'[p].updatedLicense = Null
                      /\ reqs'[p].logEntry.reason = "Maximum guilds reached"

\* a verification whose add was accepted is answered valid=true, and one whose
\* add was refused is answered with the maximum-guilds message
C38_Answer ==
    \A p \in DOMAIN reqs :
        IsVerify(p) /\ Answered(p) /\ reqs[p].license # Null
        => /\ reqs[p].updatedLicense # Null => reqs[p].res.valid
           /\ reqs[p].logEntry.reason = "Maximum guilds reached"
                 => ~reqs[p].res.valid /\ reqs[p].res.message = MaxGuildsMessage

\* C38: when a license holds more members than maxGuilds, verifications do
\* not make it worse: a verification by a current member is accepted and
\* answered valid=true, one by a non-member is refused with the
\* maximum-guilds answer, and no step of a verification removes a member or
\* adds one while the license is at or over its maximum.
C38_OverCapacity == [][C38_Step]_vars /\ []C38_Answer

\* C38 witness: an update lowered maxGuilds to 1 on a license with two
\* members; after it, a member was verified valid and a non-member was
\* refused with the maximum-guilds answer, and the two members are still there.
C38_Witness ==
    \E p, q, u \in DOMAIN reqs :
        /\ reqs[u].kind = "put" /\ Answered(u) /\ reqs[u].res.status = 200
        /\ C38_Over("K1") /\ Len(Members("K1")) = 2
        /\ IsVerify(p) /\ Answered(p) /\ reqs[p].res.valid
        /\ reqs[p].license # Null
        /\ Len(reqs[p].license.activation.allowedGuilds)
              > reqs[p].license.activation.maxGuilds
        /\ Includes(Members("K1"), reqs[p].discordServerId)
        /\ IsVerify(q) /\ Answered(q) /\ reqs[q].res.message = MaxGuildsMessage
        /\ reqs[q].license # Null
        /\ Len(reqs[q].license.activation.allowedGuilds)
              > reqs[q].license.activation.maxGuilds
        /\ ~Includes(Members("K1"), reqs[q].discordServerId)



\* a request that has arrived and is not answered can take its next step,
\* whatever the other requests are doing
C39_NoWaiting ==
    \A p \in RaceSlots :
        reqs[p].pc \notin {"idle", "done"} => ENABLED Resume(p)

\* an answered request takes no further step: its response is not replaced
C39_Step ==
    \A p \in RaceSlots : reqs[p].pc = "done" => reqs'[p] = reqs[p]

\* C39: with a store that answers every call, every verification and every
\* deactivation that arrives is eventually answered, and answered once, with
\* any other request in flight on the same license: no request waits for
\* another to finish and no answered request is answered again.
C39_EveryRequestAnswered ==
    /\ []C39_NoWaiting
    /\ [][C39_Step]_vars
    /\ \A p \in RaceSlots :
          (reqs[p].pc \notin {"idle", "done"}) ~> (reqs[p].pc = "done")

\* C39 witness: a verification and a deactivation of the same guild were in
\* flight together (the deactivation loaded the license with the guild that
\* the verification added) and both are answered with a success.
C39_Witness ==
    \E p, q \in RaceSlots :
        /\ IsVerify(p) /\ Answered(p) /\ reqs[p].res.valid
        /\ ~reqs[p].isGuildActive
        /\ IsDeactivate(q) /\ Answered(q) /\ reqs[q].res.status = 200
        /\ reqs[q].discordServerId = reqs[p].discordServerId
        /\ ~Includes(reqs[p].res.data.activation.allowedGuilds,
                     reqs[p].discordServerId)


====
